---- MODULE Spec2Model ----
(***************************************************************************)
(* Verification model of the classifiert / rfcperf benchmarking tool:      *)
(*   - the dataset cache (rfcperf/data.py: generate_datasets and helpers), *)
(*   - the orchestration loop (classifiert/app.py: profile) with the       *)
(*     process runner (classifiert/util.py: run_program) and the balsa     *)
(*     driver (rfcperf/drivers/balsa.py: Driver.run),                      *)
(*   - the sampler (sample_dataset, as called by the sample command),      *)
(*   - the score calculator (classifiert/util.py),                         *)
(*   - the dataset files (rfcperf/data.py: the bin and balsa formats),     *)
(*   - the reader of time files (classifiert/util.py),                     *)
(*   - the drivers' run signatures and the configuration (config.py).      *)
(* Each subsystem has its own specification over the shared variables.     *)
(***************************************************************************)
EXTENDS Integers, Sequences, FiniteSets, TLC

(***************************************************************************)
(* Bounds of the model.                                                    *)
(***************************************************************************)
MaxRows == 3
MaxSize == 2
MaxSizes == 2
MaxCount == 8

(***************************************************************************)
(* Python's None, for the integer-valued optional parameters.              *)
(***************************************************************************)
None == -1

VARIABLES
    \* ---- the source datasets
    bad_row,             \* row of the corpus whose label is not 0 or 1 (0: none)
    test_source,         \* [rows, bad_row]: the separate test dataset
    \* ---- profile: the dataset generation step
    pg_in,               \* the arguments of profile that the step reads
    pgpc,                \* position in the step
    config_file,         \* [exists, sections]: the configuration file on disk
    run_path,            \* "none" until profile has created its run directory
    \* ---- file system and its operation history
    fs,                  \* existing file -> content (sequence of rows)
    fs0,                 \* the file system when generate_datasets was called
    oplog,               \* sequence of [op, file]: unlink / write / load
    \* ---- generate_datasets: arguments
    data_sizes, use_cache, test_percentage, seed, corpus_rows,
    \* ---- generate_datasets: locals
    gpc,                 \* position in generate_datasets
    gi,                  \* index of the current data_size in data_sizes
    data_points,         \* [loaded, rows]: the corpus held in memory
    train_data_filename, \* the parameter, reassigned at line 336
    new_rows,            \* new_data_points / new_labels of the iteration
    gfmt,                \* index into DATA_FORMATS of the store loops
    gexc,                \* exception raised by generate_datasets
    \* ---- one run_program call
    rmode,               \* what the run specification exercises
    rp_in,               \* arguments and behaviour of the launched program
    rp_pc,               \* "idle", "call", "returned", "raised", "blocked"
    rp_out,              \* what run_program gave back
    \* ---- one Driver.run call
    drv_in,              \* the driver kind and the arguments of the call
    dpc,                 \* position in Driver.run
    drv_stats,           \* the driver's run_statistics dict (its keys)
    launched,            \* programs launched by this run, with their outcome,
                         \* the files persisted and the statistics read
    dexc,                \* exception that left Driver.run
    \* ---- profile: arguments
    sections,            \* the sections of the configuration file
    classifiers, psizes, ptimeout,
    \* ---- profile: locals
    ppc,                 \* position in profile
    ci, si,              \* indices into classifiers and psizes
    dirs,                \* run directories created below run_path
    run_statistics,      \* dict of the current (classifier, size) pair
    classifier_statistics,
    statistics,          \* classifier name -> list of run statistics
    reports,             \* report files written
    attempts,            \* history: <<ci, si, succeeded>> of every driver.run
    pexc,                \* the exception that left profile, and where it arose
    \* ---- the sample command
    s_rows_in,           \* number of rows of the input dataset
    sample_size, with_replacement, s_format, label_output_filename,
    spc,                 \* position in sample
    s_index,             \* the index vector drawn by sample_dataset
    s_files,             \* output file -> content
    sexc,                \* exception raised by sample
    \* ---- get_classification_scores
    sc_in,               \* how many (predicted, true) label pairs of each sort
    sc_pc,               \* "call", "returned", "raised"
    target_dict,         \* the metrics written, key -> [num, den]
    \* ---- the dataset files: store_* and load_* of rfcperf/data.py
    cd_mode,             \* "labelled": store_labelled_dataset, "codec": store and load
    cd_in,               \* the arguments of the call
    cd_file,             \* the files: path -> content
    cd_pc,               \* position in the exercise
    cd_out,              \* what the call gave back
    \* ---- get_statistics_from_time_file
    tm_in,               \* [time_file, key_prefix]: the lines of the file
    tm_pc,               \* "call", "returned", "raised"
    tm_dict              \* the statistics written, key -> value

pgVars == <<bad_row, test_source, pg_in, pgpc, config_file, run_path>>

genVars == <<fs, fs0, oplog, data_sizes, use_cache, test_percentage, seed,
             corpus_rows, gpc, gi, data_points, train_data_filename,
             new_rows, gfmt, gexc>>

rpVars == <<rmode, rp_in, rp_pc, rp_out>>

drvVars == <<drv_in, dpc, drv_stats, launched, dexc>>

profVars == <<sections, classifiers, psizes, ptimeout, ppc, ci, si, dirs,
              run_statistics, classifier_statistics, statistics, reports,
              attempts, pexc>>

smpVars == <<s_rows_in, sample_size, with_replacement, s_format,
             label_output_filename, spc, s_index, s_files, sexc>>

scVars == <<sc_in, sc_pc, target_dict>>

cdVars == <<cd_mode, cd_in, cd_file, cd_pc, cd_out>>

tmVars == <<tm_in, tm_pc, tm_dict>>

vars == <<pgVars, genVars, rpVars, drvVars, profVars, smpVars, scVars, cdVars,
          tmVars>>

(***************************************************************************)
(* Paths.  A path is modelled by the fields its name is built from.        *)
(***************************************************************************)
DATA_FORMATS == <<"csv", "bin", "balsa">>

Path(purpose, kind, size, pct, fmt) ==
    [purpose |-> purpose, kind |-> kind, size |-> size, pct |-> pct, fmt |-> fmt]

NoPath == Path("None", "None", None, None, "None")

SourcePath == Path("source", "data", None, None, "json")

TestSourcePath == Path("test-source", "data", None, None, "json")

get_dataset_filenames(purpose, data_format, data_size, pct) ==
    LET data_file == Path(purpose, "data", data_size, pct, data_format)
        label_file == Path(purpose, "label", data_size, pct, data_format)
    IN  IF data_format = "csv" THEN <<data_file, NoPath>>
                               ELSE <<data_file, label_file>>

get_train_dataset_filenames(data_format, data_size, pct) ==
    get_dataset_filenames("train", data_format, data_size, pct)

get_test_dataset_filenames(data_format, data_size, pct) ==
    get_dataset_filenames("test", data_format, data_size, pct)

(***************************************************************************)
(* Datasets.  A row is [x |-> feature vector id, y |-> label]; a data file *)
(* of the bin/balsa formats holds the x of each row, a label file the y,   *)
(* a csv file both.                                                        *)
(***************************************************************************)
Row(x, y) == [x |-> x, y |-> y]

\* the corpus stored at SourcePath: n rows with distinct feature vectors
Corpus(n) == [i \in 1..n |-> Row(i, i % 2)]

\* the same corpus with a label that is neither 0 nor 1 in row bad
BadCorpus(n, bad) == [i \in 1..n |-> Row(i, IF i = bad THEN 2 ELSE i % 2)]

\* the dataset stored at the separate test file
TestCorpus(n, bad) == [i \in 1..n |-> Row(200 + i, IF i = bad THEN 2 ELSE i % 2)]

\* a corpus used by an earlier run to fill the cache
OtherCorpus(n) == [i \in 1..n |-> Row(100 + i, i % 2)]

Range(s) == {s[i] : i \in DOMAIN s}

Slice(s, from, to) == [i \in 1..(to - from + 1) |-> s[from + i - 1]]

\* Python round() of the non-negative quotient num / den: half to even
PyRound(num, den) ==
    LET q == num \div den
        r == num % den
    IN  IF 2 * r < den THEN q
        ELSE IF 2 * r > den THEN q + 1
        ELSE IF q % 2 = 0 THEN q ELSE q + 1

test_size_of(data_size, pct) ==
    IF pct = None THEN 0 ELSE PyRound(pct * data_size, 100)

\* what each store_* function leaves in a file of the given kind
Encode(rows, kind, fmt) ==
    IF fmt = "csv" THEN rows
    ELSE IF kind = "data" THEN [i \in DOMAIN rows |-> Row(rows[i].x, None)]
    ELSE [i \in DOMAIN rows |-> Row(None, rows[i].y)]

(***************************************************************************)
(* is_cached / remove_from_cache: the files of a key, in the order the     *)
(* two functions visit them.                                               *)
(***************************************************************************)
FormatFilenames(data_format, data_size, pct) ==
    LET train == get_train_dataset_filenames(data_format, data_size, pct)
    IN  IF pct # None
        THEN train \o get_test_dataset_filenames(data_format, data_size, pct)
        ELSE train

KeyFilenames(data_size, pct) ==
    FormatFilenames(DATA_FORMATS[1], data_size, pct)
        \o FormatFilenames(DATA_FORMATS[2], data_size, pct)
        \o FormatFilenames(DATA_FORMATS[3], data_size, pct)

is_file(files, f) == f \in DOMAIN files

\* mutant of is_cached: the test split is not looked at
is_cached_train_only(files, data_size, pct) ==
    \A i \in 1..Len(DATA_FORMATS) :
        LET filenames == get_train_dataset_filenames(DATA_FORMATS[i], data_size, pct)
        IN  \A j \in DOMAIN filenames :
                filenames[j] = NoPath \/ is_file(files, filenames[j])

is_cached(files, data_size, pct) ==
    \A i \in DOMAIN KeyFilenames(data_size, pct) :
        LET filename == KeyFilenames(data_size, pct)[i]
        IN  filename = NoPath \/ is_file(files, filename)

IsRealPath(f) == f # NoPath

\* the unlink calls of remove_from_cache, in order
remove_from_cache_unlinks(data_size, pct) ==
    SelectSeq(KeyFilenames(data_size, pct), IsRealPath)

\* mutant of remove_from_cache: nothing is unlinked
remove_from_cache_kept(files, data_size, pct) == files

remove_from_cache(files, data_size, pct) ==
    LET gone == Range(remove_from_cache_unlinks(data_size, pct))
    IN  [f \in (DOMAIN files) \ gone |-> files[f]]

LogOps(op, files) == [i \in DOMAIN files |-> [op |-> op, file |-> files[i]]]

(***************************************************************************)
(* store_labelled_dataset: the writes it makes, or the error it raises.    *)
(***************************************************************************)
\* mutant of store_labelled_dataset: a csv request with a label path is served
store_labelled_dataset_label_ignored(data_format, data_filename, label_filename, rows) ==
    IF label_filename = NoPath /\ data_format # "csv"
    THEN [raised |-> TRUE, writes |-> <<>>]
    ELSE IF data_format = "csv"
    THEN [raised |-> FALSE,
          writes |-> << <<data_filename, Encode(rows, "data", "csv")>> >>]
    ELSE IF data_format \in {"bin", "balsa"}
    THEN [raised |-> FALSE,
          writes |-> << <<data_filename, Encode(rows, "data", data_format)>>,
                        <<label_filename, Encode(rows, "label", data_format)>> >>]
    ELSE [raised |-> TRUE, writes |-> <<>>]

store_labelled_dataset(data_format, data_filename, label_filename, rows) ==
    IF label_filename # NoPath /\ data_format = "csv"
    THEN [raised |-> TRUE, writes |-> <<>>]
    ELSE IF label_filename = NoPath /\ data_format # "csv"
    THEN [raised |-> TRUE, writes |-> <<>>]
    ELSE IF data_format = "csv"
    THEN [raised |-> FALSE,
          writes |-> << <<data_filename, Encode(rows, "data", "csv")>> >>]
    ELSE IF data_format \in {"bin", "balsa"}
    THEN [raised |-> FALSE,
          writes |-> << <<data_filename, Encode(rows, "data", data_format)>>,
                        <<label_filename, Encode(rows, "label", data_format)>> >>]
    ELSE [raised |-> TRUE, writes |-> <<>>]

RECURSIVE ApplyWrites(_, _)
ApplyWrites(files, writes) ==
    IF writes = <<>> THEN files
    ELSE LET w == Head(writes)
             rest == [f \in (DOMAIN files) \ {w[1]} |-> files[f]]
         IN  ApplyWrites((w[1] :> w[2]) @@ rest, Tail(writes))

WrittenFiles(writes) == [i \in DOMAIN writes |-> writes[i][1]]

(***************************************************************************)
(* sample_dataset: the precondition and the index vectors that             *)
(* Generator.choice(n, data_size, replace=replace) can return.             *)
(***************************************************************************)
\* mutant of sample_dataset_precondition: the assertion is missing
sample_dataset_unchecked(n, data_size, replace) == TRUE

sample_dataset_precondition(n, data_size, replace) ==
    (data_size <= n) \/ replace

Injective(s) == \A i, j \in DOMAIN s : s[i] = s[j] => i = j

choice(n, data_size, replace) ==
    {index \in [1..data_size -> 1..n] : replace \/ Injective(index)}

(***************************************************************************)
(* generate_datasets(train_data_filename, data_sizes, use_cache,           *)
(*                   test_percentage, seed)                                *)
(***************************************************************************)
SortedSizeLists ==
    {l \in UNION {[1..n -> 1..MaxSize] : n \in 1..MaxSizes} :
        \A i, j \in DOMAIN l : i < j => l[i] <= l[j]}

Percentages == {None, 50}

Seeds == {None, 7}

\* files an earlier run has left for a key: a complete key holds a sample
\* of another corpus
StaleContent(f) ==
    LET n == IF f.purpose = "train" THEN f.size
             ELSE test_size_of(f.size, f.pct)
    IN  Encode(OtherCorpus(n), f.kind, f.fmt)

RequestedFiles(sizes, pct) ==
    UNION {Range(KeyFilenames(sizes[i], pct)) \ {NoPath} : i \in DOMAIN sizes}

\* the variables of a subsystem while another one is exercised
GenIdle ==
    /\ fs = <<>> /\ fs0 = <<>> /\ oplog = <<>>
    /\ data_sizes = <<>> /\ use_cache = TRUE /\ test_percentage = None
    /\ seed = None /\ corpus_rows = 0
    /\ gpc = "idle" /\ gi = 0
    /\ data_points = [loaded |-> FALSE, rows |-> <<>>]
    /\ train_data_filename = SourcePath
    /\ new_rows = <<>> /\ gfmt = 0 /\ gexc = "none"

NoExc == [type |-> "none", program |-> "none", code |-> None]

NoCall == [program |-> "none", time_file |-> "none", timeout |-> None,
           log |-> FALSE, outcome |-> [kind |-> "none", code |-> None]]

NoResult == [status |-> "none", returncode |-> None, exc |-> NoExc, files |-> {}]

RpIdle ==
    /\ rmode = "idle" /\ rp_in = NoCall /\ rp_pc = "idle" /\ rp_out = NoResult

DrvCall(kind, train_label_filename, test_label_filename, keywords) ==
    [kind |-> kind,
     train_label_filename |-> train_label_filename,
     test_label_filename |-> test_label_filename,
     keywords |-> keywords]

NoDrvCall == DrvCall("none", NoPath, NoPath, {})

DrvIdle ==
    /\ drv_in = NoDrvCall
    /\ dpc = "idle" /\ drv_stats = {} /\ launched = <<>> /\ dexc = NoExc

NoAbort == [type |-> "none", at |-> "none"]

ProfIdle ==
    /\ sections = <<>> /\ pexc = NoAbort
    /\ classifiers = <<>> /\ psizes = <<>> /\ ptimeout = None
    /\ ppc = "idle" /\ ci = 0 /\ si = 0 /\ dirs = {}
    /\ run_statistics = [data_size |-> None, keys |-> {}]
    /\ classifier_statistics = <<>> /\ statistics = <<>>
    /\ reports = <<>> /\ attempts = <<>>

SmpIdle ==
    /\ s_rows_in = 0 /\ sample_size = None /\ with_replacement = FALSE
    /\ s_format = "none" /\ label_output_filename = NoPath
    /\ spc = "idle" /\ s_index = <<>> /\ s_files = <<>> /\ sexc = "none"

ScIdle ==
    /\ sc_in = [tp |-> 0, fp |-> 0, tn |-> 0, fn |-> 0, other |-> 0]
    /\ sc_pc = "idle" /\ target_dict = <<>>

CdIdle ==
    /\ cd_mode = "idle" /\ cd_in = <<>> /\ cd_file = <<>>
    /\ cd_pc = "idle" /\ cd_out = <<>>

TmIdle == tm_in = <<>> /\ tm_pc = "idle" /\ tm_dict = <<>>

ConfigFile(exists, file) == [exists |-> exists, sections |-> file]

NoConfigFile == ConfigFile(FALSE, <<>>)

NoStep == [config |-> NoConfigFile,
           test_data_filename |-> NoPath, test_percentage |-> None,
           data_sizes |-> <<>>, use_cache |-> TRUE, random_seed |-> None]

PgIdle ==
    /\ test_source = [rows |-> 0, bad_row |-> 0]
    /\ pg_in = NoStep /\ pgpc = "idle"
    /\ config_file = NoConfigFile /\ run_path = "none"

GenInit ==
    /\ data_sizes \in SortedSizeLists
    /\ use_cache \in BOOLEAN
    /\ test_percentage \in Percentages
    /\ seed \in Seeds
    /\ corpus_rows \in 0..MaxRows
    \* every requested key starts complete or empty, and at most one file
    \* of the cache has gone missing since
    /\ \E complete \in SUBSET Range(data_sizes) :
       \E hole \in RequestedFiles(data_sizes, test_percentage) \cup {NoPath} :
          LET present ==
                {f \in RequestedFiles(data_sizes, test_percentage) :
                    f.size \in complete /\ f # hole}
          IN  fs = [f \in present |-> StaleContent(f)]
    /\ fs0 = fs
    /\ oplog = <<>>
    /\ gpc = "loop"
    /\ gi = 1
    /\ data_points = [loaded |-> FALSE, rows |-> <<>>]
    /\ train_data_filename = SourcePath
    /\ new_rows = <<>>
    /\ gfmt = 1
    /\ gexc = "none"

data_size == data_sizes[gi]

\* mutants of must_skip: the seed test inverted; the seed test forgotten
must_skip_seed_inverted(in_cache, cache_flag, seed_arg) ==
    in_cache /\ cache_flag /\ seed_arg # None

must_skip_seed_forgotten(in_cache, cache_flag, seed_arg) ==
    in_cache /\ cache_flag

must_skip(in_cache, cache_flag, seed_arg) ==
    in_cache /\ cache_flag /\ seed_arg = None

\* lines 314-318: the key is complete and may be reused
GenCached ==
    /\ gpc = "loop"
    /\ gi <= Len(data_sizes)
    /\ must_skip(is_cached(fs, data_size, test_percentage), use_cache, seed)
    /\ gi' = gi + 1
    /\ UNCHANGED <<fs, fs0, oplog, data_sizes, use_cache, test_percentage, seed,
                   corpus_rows, gpc, data_points, train_data_filename,
                   new_rows, gfmt, gexc>>
    /\ UNCHANGED <<pgVars, cdVars, tmVars, smpVars, scVars, rpVars, drvVars, profVars>>

\* lines 314-325: the key is regenerated, its files are removed first
GenRemove ==
    /\ gpc = "loop"
    /\ gi <= Len(data_sizes)
    /\ ~must_skip(is_cached(fs, data_size, test_percentage), use_cache, seed)
    /\ fs' = remove_from_cache(fs, data_size, test_percentage)
    /\ oplog' = oplog \o
            LogOps("unlink", remove_from_cache_unlinks(data_size, test_percentage))
    /\ gpc' = "load"
    /\ UNCHANGED <<fs0, data_sizes, use_cache, test_percentage, seed, corpus_rows,
                   gi, data_points, train_data_filename, new_rows, gfmt, gexc>>
    /\ UNCHANGED <<pgVars, cdVars, tmVars, smpVars, scVars, rpVars, drvVars, profVars>>

\* mutant of must_load: the corpus is read for every regenerated size
must_load_always(dp) == TRUE

must_load(dp) == ~dp.loaded

\* lines 327-330: the corpus is read on first need
GenLoad ==
    /\ gpc = "load"
    /\ IF must_load(data_points)
       THEN /\ oplog' = Append(oplog, [op |-> "load", file |-> train_data_filename])
            /\ IF train_data_filename # SourcePath
               THEN \* not a json-pickle file: the decode fails
                    /\ gpc' = "raised"
                    /\ gexc' = "DecodeError"
                    /\ UNCHANGED data_points
               ELSE IF \E i \in 1..corpus_rows :
                            BadCorpus(corpus_rows, bad_row)[i].y \notin {0, 1}
               THEN /\ gpc' = "raised"
                    /\ gexc' = "AssertionError"
                    /\ data_points' = [loaded |-> TRUE,
                                       rows |-> BadCorpus(corpus_rows, bad_row)]
               ELSE /\ gpc' = "sample"
                    /\ data_points' = [loaded |-> TRUE,
                                       rows |-> BadCorpus(corpus_rows, bad_row)]
                    /\ UNCHANGED gexc
       ELSE /\ gpc' = "sample"
            /\ UNCHANGED <<oplog, data_points, gexc>>
    /\ UNCHANGED <<fs, fs0, data_sizes, use_cache, test_percentage, seed, corpus_rows,
                   gi, train_data_filename, new_rows, gfmt>>
    /\ UNCHANGED <<pgVars, cdVars, tmVars, smpVars, scVars, rpVars, drvVars, profVars>>

test_size == test_size_of(data_size, test_percentage)

\* lines 332-333: data_size + test_size rows are drawn without replacement
GenSample ==
    /\ gpc = "sample"
    /\ sample_dataset_precondition(Len(data_points.rows), data_size + test_size, FALSE)
    /\ \E index \in choice(Len(data_points.rows), data_size + test_size, FALSE) :
          new_rows' = [i \in DOMAIN index |-> data_points.rows[index[i]]]
    /\ gpc' = "store_train"
    /\ gfmt' = 1
    /\ UNCHANGED <<fs, fs0, oplog, data_sizes, use_cache, test_percentage, seed,
                   corpus_rows, gi, data_points, train_data_filename, gexc>>
    /\ UNCHANGED <<pgVars, cdVars, tmVars, smpVars, scVars, rpVars, drvVars, profVars>>

\* line 303: the assertion of sample_dataset fails
GenSampleFail ==
    /\ gpc = "sample"
    /\ ~sample_dataset_precondition(Len(data_points.rows), data_size + test_size, FALSE)
    /\ gpc' = "raised"
    /\ gexc' = "AssertionError"
    /\ UNCHANGED <<fs, fs0, oplog, data_sizes, use_cache, test_percentage, seed,
                   corpus_rows, gi, data_points, train_data_filename,
                   new_rows, gfmt>>
    /\ UNCHANGED <<pgVars, cdVars, tmVars, smpVars, scVars, rpVars, drvVars, profVars>>

\* mutant of train_rows: the whole sample is stored as the train split
train_rows_unsliced(rows, size) == rows

train_rows(rows, size) == Slice(rows, 1, size)

test_rows(rows, size) == Slice(rows, size + 1, Len(rows))

\* lines 335-340: one pass of the loop that stores the train split
GenStoreTrain ==
    /\ gpc = "store_train"
    /\ LET names == get_train_dataset_filenames(DATA_FORMATS[gfmt], data_size, test_percentage)
           r == store_labelled_dataset(DATA_FORMATS[gfmt], names[1], names[2],
                                       train_rows(new_rows, data_size))
       IN  /\ train_data_filename' = names[1]
           /\ IF r.raised
              THEN /\ gpc' = "raised"
                   /\ gexc' = "RuntimeError"
                   /\ UNCHANGED <<fs, oplog, gfmt>>
              ELSE /\ fs' = ApplyWrites(fs, r.writes)
                   /\ oplog' = oplog \o LogOps("write", WrittenFiles(r.writes))
                   /\ UNCHANGED gexc
                   /\ IF gfmt < Len(DATA_FORMATS)
                      THEN gfmt' = gfmt + 1 /\ UNCHANGED gpc
                      ELSE /\ gfmt' = 1
                           /\ gpc' = IF test_percentage = None
                                     THEN "iter_end" ELSE "store_test"
    /\ UNCHANGED <<fs0, data_sizes, use_cache, test_percentage, seed, corpus_rows,
                   gi, data_points, new_rows>>
    /\ UNCHANGED <<pgVars, cdVars, tmVars, smpVars, scVars, rpVars, drvVars, profVars>>

\* lines 342-344: one pass of the loop that stores the test split
GenStoreTest ==
    /\ gpc = "store_test"
    /\ LET names == get_test_dataset_filenames(DATA_FORMATS[gfmt], data_size, test_percentage)
           r == store_labelled_dataset(DATA_FORMATS[gfmt], names[1], names[2],
                                       test_rows(new_rows, data_size))
       IN  IF r.raised
           THEN /\ gpc' = "raised"
                /\ gexc' = "RuntimeError"
                /\ UNCHANGED <<fs, oplog, gfmt>>
           ELSE /\ fs' = ApplyWrites(fs, r.writes)
                /\ oplog' = oplog \o LogOps("write", WrittenFiles(r.writes))
                /\ UNCHANGED gexc
                /\ IF gfmt < Len(DATA_FORMATS)
                   THEN gfmt' = gfmt + 1 /\ UNCHANGED gpc
                   ELSE gfmt' = 1 /\ gpc' = "iter_end"
    /\ UNCHANGED <<fs0, data_sizes, use_cache, test_percentage, seed, corpus_rows,
                   gi, data_points, train_data_filename, new_rows>>
    /\ UNCHANGED <<pgVars, cdVars, tmVars, smpVars, scVars, rpVars, drvVars, profVars>>

\* the end of the loop body: on to the next data_size
GenIterEnd ==
    /\ gpc = "iter_end"
    /\ gi' = gi + 1
    /\ gpc' = "loop"
    /\ UNCHANGED <<fs, fs0, oplog, data_sizes, use_cache, test_percentage, seed,
                   corpus_rows, data_points, train_data_filename, new_rows,
                   gfmt, gexc>>
    /\ UNCHANGED <<pgVars, cdVars, tmVars, smpVars, scVars, rpVars, drvVars, profVars>>

\* the loop is exhausted: generate_datasets returns
GenReturn ==
    /\ gpc = "loop"
    /\ gi > Len(data_sizes)
    /\ gpc' = "done"
    /\ UNCHANGED <<fs, fs0, oplog, data_sizes, use_cache, test_percentage, seed,
                   corpus_rows, gi, data_points, train_data_filename, new_rows,
                   gfmt, gexc>>
    /\ UNCHANGED <<pgVars, cdVars, tmVars, smpVars, scVars, rpVars, drvVars, profVars>>

(***************************************************************************)
(* The sample command (app.py, sample): one ad hoc sample of a dataset,    *)
(* written through store_labelled_dataset.                                 *)
(***************************************************************************)
DataOut == Path("out", "data", None, None, "any")

LabelOut == Path("out", "label", None, None, "any")

SmpInit ==
    /\ s_rows_in \in 0..MaxRows
    /\ sample_size \in {None} \cup 1..(MaxRows + 1)
    /\ with_replacement \in BOOLEAN
    /\ s_format \in Range(DATA_FORMATS)
    /\ label_output_filename \in {NoPath, LabelOut}
    /\ spc = "start"
    /\ s_index = <<>>
    /\ s_files = <<>>
    /\ sexc = "none"

\* Generator.choice refuses an empty population, and a sample larger than
\* the population when replace is off
choice_rejects(n, size, replace) ==
    \/ n = 0 /\ size > 0
    \/ ~replace /\ size > n

\* lines 115-116: no sample size, the whole dataset is taken
SmpAll ==
    /\ spc = "start"
    /\ sample_size = None
    /\ s_index' = [i \in 1..s_rows_in |-> i]
    /\ spc' = "store"
    /\ UNCHANGED <<s_rows_in, sample_size, with_replacement, s_format,
                   label_output_filename, s_files, sexc>>
    /\ UNCHANGED <<pgVars, cdVars, tmVars, genVars, rpVars, drvVars, profVars, scVars>>

\* lines 118-119: sample_dataset draws the index vector
SmpSample ==
    /\ spc = "start"
    /\ sample_size # None
    /\ sample_dataset_precondition(s_rows_in, sample_size, with_replacement)
    /\ ~choice_rejects(s_rows_in, sample_size, with_replacement)
    /\ \E index \in choice(s_rows_in, sample_size, with_replacement) :
          s_index' = index
    /\ spc' = "store"
    /\ UNCHANGED <<s_rows_in, sample_size, with_replacement, s_format,
                   label_output_filename, s_files, sexc>>
    /\ UNCHANGED <<pgVars, cdVars, tmVars, genVars, rpVars, drvVars, profVars, scVars>>

\* data.py line 303: the assertion of sample_dataset fails
SmpAssertFail ==
    /\ spc = "start"
    /\ sample_size # None
    /\ ~sample_dataset_precondition(s_rows_in, sample_size, with_replacement)
    /\ spc' = "raised"
    /\ sexc' = "AssertionError"
    /\ UNCHANGED <<s_rows_in, sample_size, with_replacement, s_format,
                   label_output_filename, s_index, s_files>>
    /\ UNCHANGED <<pgVars, cdVars, tmVars, genVars, rpVars, drvVars, profVars, scVars>>

\* data.py line 304: the assertion holds but Generator.choice raises
SmpChoiceFail ==
    /\ spc = "start"
    /\ sample_size # None
    /\ sample_dataset_precondition(s_rows_in, sample_size, with_replacement)
    /\ choice_rejects(s_rows_in, sample_size, with_replacement)
    /\ spc' = "raised"
    /\ sexc' = "ValueError"
    /\ UNCHANGED <<s_rows_in, sample_size, with_replacement, s_format,
                   label_output_filename, s_index, s_files>>
    /\ UNCHANGED <<pgVars, cdVars, tmVars, genVars, rpVars, drvVars, profVars, scVars>>

\* line 121: the sample is stored
SmpStore ==
    /\ spc = "store"
    /\ LET rows == [i \in DOMAIN s_index |-> BadCorpus(s_rows_in, bad_row)[s_index[i]]]
           r == store_labelled_dataset(s_format, DataOut, label_output_filename, rows)
       IN  IF r.raised
           THEN /\ spc' = "raised"
                /\ sexc' = "RuntimeError"
                /\ UNCHANGED s_files
           ELSE /\ spc' = "done"
                /\ s_files' = ApplyWrites(s_files, r.writes)
                /\ UNCHANGED sexc
    /\ UNCHANGED <<s_rows_in, sample_size, with_replacement, s_format,
                   label_output_filename, s_index>>
    /\ UNCHANGED <<pgVars, cdVars, tmVars, genVars, rpVars, drvVars, profVars, scVars>>

(***************************************************************************)
(* Specification of the dataset sampler and cache: one call of             *)
(* generate_datasets, or one run of the sample command.                    *)
(***************************************************************************)
Init ==
    /\ RpIdle /\ DrvIdle /\ ProfIdle /\ ScIdle /\ CdIdle /\ TmIdle /\ PgIdle
    /\ bad_row \in 0..1
    /\ \/ GenInit /\ SmpIdle
       \/ SmpInit /\ GenIdle

Next ==
    \/ GenCached
    \/ GenRemove
    \/ GenLoad
    \/ GenSample
    \/ GenSampleFail
    \/ GenStoreTrain
    \/ GenStoreTest
    \/ GenIterEnd
    \/ GenReturn
    \/ SmpAll
    \/ SmpSample
    \/ SmpAssertFail
    \/ SmpChoiceFail
    \/ SmpStore

Spec == Init /\ [][Next]_vars

(***************************************************************************)
(* The configuration file (config.py) and the registry of drivers.         *)
(***************************************************************************)
\* a section of the configuration file: its driver key and the names of
\* its other keys
Section(driver, args) == [driver |-> driver, args |-> args]

\* a section without a driver key
NoDriver == ""

\* a configuration file: five sections a driver can be built from, one
\* naming a driver kind that is not registered, one carrying a key the
\* constructor of its driver does not take
Sections ==
    [name \in {"balsa", "balsa-b", "lightgbm", "ranger", "sklearn",
               "xgboost", "balsa-old"} |->
        CASE name \in {"balsa", "balsa-b"}     -> Section("balsa", {"path"})
          [] name \in {"lightgbm", "sklearn"}  -> Section(name, {"python"})
          [] name = "ranger"                   -> Section("ranger", {"path"})
          [] name = "xgboost"                  -> Section("xgboost", {"path"})
          [] name = "balsa-old"                -> Section("balsa", {"path", "data_format"})]

\* the same file with one more section, which has no driver key
MalformedSections == ("broken" :> Section(NoDriver, {"path"})) @@ Sections

\* config.py line 38: arguments.pop("driver")
load_config_ok(file) == \A name \in DOMAIN file : file[name].driver # NoDriver

\* the configuration: classifier name -> driver kind
Config == [name \in DOMAIN sections |-> sections[name].driver]

\* the configuration: classifier name -> names of the constructor arguments
ConfigArgs == [name \in DOMAIN sections |-> sections[name].args]

ClassifierNames == DOMAIN Sections \cup {"unknown"}

\* the registered driver kinds
DRIVERS == {"balsa", "lightgbm", "ranger", "sklearn"}

\* drivers/__init__.py line 20: _DRIVERS[name]
get_driver_ok(name) == name \in DRIVERS

\* the parameters of Driver.__init__
DriverParameters(kind) == IF kind \in {"lightgbm", "sklearn"} THEN {"python"} ELSE {"path"}

\* line 69: Driver(**classifier["args"])
constructed(kind, args) == args = DriverParameters(kind)

Abort(type, at) == [type |-> type, at |-> at]

(***************************************************************************)
(* profile up to the loop over the classifiers (app.py lines 26-55): the   *)
(* configuration is loaded or a default one is written, the test arguments *)
(* are checked, generate_datasets is called, a separate test dataset is    *)
(* ingested (data.py, ingest_test_dataset) and the run directory is made.  *)
(***************************************************************************)
Step(config, test_file, pct, sizes, cache_flag, random_seed) ==
    [config |-> config,
     test_data_filename |-> test_file, test_percentage |-> pct,
     data_sizes |-> sizes, use_cache |-> cache_flag, random_seed |-> random_seed]

\* app.py lines 15-21: one section per registered driver, as each
\* driver's add_default_config fills it
DefaultConfig == [name \in DRIVERS |-> Section(name, DriverParameters(name))]

\* mutant of must_generate_default: a missing file is taken for an empty one
must_generate_default_never(file) == FALSE

\* app.py lines 28-30: load_config raises FileNotFoundError
must_generate_default(file) == ~file.exists

\* app.py lines 44-45: the default split
default_test_percentage(test_file, pct) ==
    IF test_file = NoPath /\ pct = None THEN 33 ELSE pct

\* the files ingest_test_dataset writes: no size, no percentage
IngestedFiles ==
    UNION {Range(get_test_dataset_filenames(DATA_FORMATS[i], None, None)) \ {NoPath} :
              i \in DOMAIN DATA_FORMATS}

\* data.py lines 350-352: the writes of ingest_test_dataset, in order
ingest_test_dataset(rows) ==
    LET Stored(i) ==
            LET names == get_test_dataset_filenames(DATA_FORMATS[i], None, None)
            IN  store_labelled_dataset(DATA_FORMATS[i], names[1], names[2], rows).writes
    IN  Stored(1) \o Stored(2) \o Stored(3)

\* mutant of run_test_dataset_filenames: the ingested test files are never used
run_test_dataset_filenames_sized(test_file, data_format, size, pct) ==
    get_test_dataset_filenames(data_format, size, pct)

\* app.py lines 79-82: the test files handed to driver.run
run_test_dataset_filenames(test_file, data_format, size, pct) ==
    IF test_file # NoPath
    THEN get_test_dataset_filenames(data_format, None, None)
    ELSE get_test_dataset_filenames(data_format, size, pct)

\* app.py line 78: the train files handed to driver.run
run_train_dataset_filenames(data_format, size, pct) ==
    get_train_dataset_filenames(data_format, size, pct)

PgInit ==
    /\ bad_row \in 0..1
    /\ test_source \in [rows : {MaxRows}, bad_row : 0..1]
    /\ pg_in \in {Step(f, t, p, l, c, r) :
                       f \in {NoConfigFile, ConfigFile(TRUE, Sections),
                              ConfigFile(TRUE, MalformedSections)},
                       t \in {NoPath, TestSourcePath},
                       p \in Percentages, l \in SortedSizeLists,
                       c \in BOOLEAN, r \in Seeds}
    /\ config_file = pg_in.config
    /\ run_path = "none"
    /\ pgpc = "config"
    /\ corpus_rows \in (MaxRows - 1)..MaxRows
    \* an earlier run with the same arguments has left every requested key
    \* complete or empty, and its ingested test files or none
    /\ \E complete \in SUBSET Range(pg_in.data_sizes), ingested \in BOOLEAN :
          LET pct == default_test_percentage(pg_in.test_data_filename,
                                             pg_in.test_percentage)
              present ==
                {f \in RequestedFiles(pg_in.data_sizes, pct) : f.size \in complete}
          IN  fs = [f \in present |-> StaleContent(f)]
                   @@ [f \in (IF ingested THEN IngestedFiles ELSE {}) |->
                          Encode(TestCorpus(1, 0), f.kind, f.fmt)]
    /\ fs0 = fs
    /\ oplog = <<>>
    /\ data_sizes = <<>> /\ use_cache = TRUE /\ test_percentage = None
    /\ seed = None
    /\ gpc = "idle" /\ gi = 0
    /\ data_points = [loaded |-> FALSE, rows |-> <<>>]
    /\ train_data_filename = SourcePath
    /\ new_rows = <<>> /\ gfmt = 0 /\ gexc = "none"

\* app.py lines 28-35: the configuration is loaded; when the file does
\* not exist a default one is written and profile returns
PgLoadConfig ==
    /\ pgpc = "config"
    /\ IF must_generate_default(config_file)
       THEN /\ config_file' = ConfigFile(TRUE, DefaultConfig)
            /\ pgpc' = "returned"
       ELSE /\ pgpc' = IF load_config_ok(config_file.sections) THEN "check" ELSE "raised"
            /\ UNCHANGED config_file
    /\ UNCHANGED <<bad_row, test_source, pg_in, run_path>>
    /\ UNCHANGED <<genVars, cdVars, tmVars, smpVars, scVars, rpVars, drvVars, profVars>>

\* app.py lines 42-46: the test arguments are checked and generate_datasets
\* is called
PgCheck ==
    /\ pgpc = "check"
    /\ IF pg_in.test_data_filename # NoPath /\ pg_in.test_percentage # None
       THEN /\ pgpc' = "raised"
            /\ UNCHANGED <<data_sizes, use_cache, test_percentage, seed, gpc, gi, gfmt>>
       ELSE /\ pgpc' = "generate"
            /\ data_sizes' = pg_in.data_sizes
            /\ use_cache' = pg_in.use_cache
            /\ test_percentage' = default_test_percentage(pg_in.test_data_filename,
                                                          pg_in.test_percentage)
            /\ seed' = pg_in.random_seed
            /\ gpc' = "loop"
            /\ gi' = 1
            /\ gfmt' = 1
    /\ UNCHANGED <<fs, fs0, oplog, corpus_rows, data_points, train_data_filename,
                   new_rows, gexc>>
    /\ UNCHANGED <<bad_row, test_source, pg_in, config_file, run_path>>
    /\ UNCHANGED <<cdVars, tmVars, smpVars, scVars, rpVars, drvVars, profVars>>

\* app.py line 46: generate_datasets raised
PgGenerateRaised ==
    /\ pgpc = "generate"
    /\ gpc = "raised"
    /\ pgpc' = "raised"
    /\ UNCHANGED <<bad_row, test_source, pg_in, config_file, run_path>>
    /\ UNCHANGED <<genVars, cdVars, tmVars, smpVars, scVars, rpVars, drvVars, profVars>>

\* app.py lines 46-49: generate_datasets returned
PgGenerateReturned ==
    /\ pgpc = "generate"
    /\ gpc = "done"
    /\ pgpc' = IF pg_in.test_data_filename # NoPath THEN "ingest" ELSE "done"
    /\ UNCHANGED <<bad_row, test_source, pg_in, config_file, run_path>>
    /\ UNCHANGED <<genVars, cdVars, tmVars, smpVars, scVars, rpVars, drvVars, profVars>>

\* app.py line 51, data.py lines 346-352: the test dataset is read and
\* stored in every format
PgIngest ==
    /\ pgpc = "ingest"
    /\ LET rows == TestCorpus(test_source.rows, test_source.bad_row)
           writes == ingest_test_dataset(rows)
       IN  /\ fs' = ApplyWrites(fs, writes)
           /\ oplog' = Append(oplog, [op |-> "load", file |-> pg_in.test_data_filename])
                           \o LogOps("write", WrittenFiles(writes))
    /\ pgpc' = "done"
    /\ UNCHANGED <<fs0, data_sizes, use_cache, test_percentage, seed, corpus_rows,
                   gpc, gi, data_points, train_data_filename, new_rows, gfmt, gexc>>
    /\ UNCHANGED <<bad_row, test_source, pg_in, config_file, run_path>>
    /\ UNCHANGED <<cdVars, tmVars, smpVars, scVars, rpVars, drvVars, profVars>>

\* app.py lines 53-55: the run directory is made
PgMkdir ==
    /\ pgpc = "done"
    /\ run_path' = "created"
    /\ pgpc' = "loop"
    /\ UNCHANGED <<bad_row, test_source, pg_in, config_file>>
    /\ UNCHANGED <<genVars, cdVars, tmVars, smpVars, scVars, rpVars, drvVars, profVars>>

DatasetInit ==
    /\ RpIdle /\ DrvIdle /\ ProfIdle /\ SmpIdle /\ ScIdle /\ CdIdle /\ TmIdle
    /\ PgInit

DatasetNext ==
    \/ PgLoadConfig
    \/ PgCheck
    \/ GenCached
    \/ GenRemove
    \/ GenLoad
    \/ GenSample
    \/ GenSampleFail
    \/ GenStoreTrain
    \/ GenStoreTest
    \/ GenIterEnd
    \/ GenReturn
    \/ PgGenerateRaised
    \/ PgGenerateReturned
    \/ PgIngest
    \/ PgMkdir

DatasetSpec == DatasetInit /\ [][DatasetNext]_vars

(***************************************************************************)
(* Properties of generate_datasets.                                        *)
(***************************************************************************)
\* the files of the key (size, pct), as the specification lists them
ClaimFiles(size, pct) ==
    LET purposes == IF pct = None THEN {"train"} ELSE {"train", "test"}
    IN  {Path(p, "data", size, pct, f) : p \in purposes, f \in {"csv", "bin", "balsa"}}
        \cup {Path(p, "label", size, pct, f) : p \in purposes, f \in {"bin", "balsa"}}

CompleteIn(files, size, pct) == ClaimFiles(size, pct) \subseteq DOMAIN files

HasOp(op, f) == \E k \in DOMAIN oplog : oplog[k] = [op |-> op, file |-> f]

Touched(size) ==
    \E k \in DOMAIN oplog :
        /\ oplog[k].op \in {"unlink", "write"}
        /\ oplog[k].file \in ClaimFiles(size, test_percentage)

Loads == {k \in DOMAIN oplog : oplog[k].op = "load"}

\* f was unlinked and written afterwards
RemovedThenWritten(f) ==
    \E a, b \in DOMAIN oplog :
        /\ a < b
        /\ oplog[a] = [op |-> "unlink", file |-> f]
        /\ oplog[b] = [op |-> "write", file |-> f]

\* every file of the key was unlinked and written afterwards, and when
\* the call has returned it exists and holds rows of the caller's corpus
Regenerated(size) ==
    \A f \in ClaimFiles(size, test_percentage) :
        /\ RemovedThenWritten(f)
        /\ gpc = "done" =>
              /\ f \in DOMAIN fs
              /\ \A k \in DOMAIN fs[f] :
                    (f.kind = "data" => fs[f][k].x \in 1..corpus_rows)

\* C3: with use_cache and no seed, a size whose cache is complete at the
\* call sees no unlink and no write on any of its files, and keeps their
\* content; if every requested size is complete the corpus is never read.
C3_CachedSizeUntouched ==
    (use_cache /\ seed = None) =>
        /\ \A i \in DOMAIN data_sizes :
              CompleteIn(fs0, data_sizes[i], test_percentage) =>
                 /\ ~Touched(data_sizes[i])
                 /\ \A f \in ClaimFiles(data_sizes[i], test_percentage) :
                       f \in DOMAIN fs /\ fs[f] = fs0[f]
        /\ (\A i \in DOMAIN data_sizes :
               CompleteIn(fs0, data_sizes[i], test_percentage)) => Loads = {}

C3_Witness ==
    /\ gpc = "done"
    /\ use_cache /\ seed = None
    /\ \E i, j \in DOMAIN data_sizes :
          /\ CompleteIn(fs0, data_sizes[i], test_percentage)
          /\ ~CompleteIn(fs0, data_sizes[j], test_percentage)
          /\ Regenerated(data_sizes[j])

\* C4: with use_cache off, or with an explicit seed, no requested size is
\* skipped: every size the loop has passed had all its files unlinked and
\* then rewritten (train always, test when a percentage is given, in csv,
\* bin and balsa), also when its cache was complete at the call.
C4_ForcedRegeneration ==
    (~use_cache \/ seed # None) =>
        \A i \in DOMAIN data_sizes :
            (i < gi \/ gpc = "done") => Regenerated(data_sizes[i])

C4_Witness ==
    /\ gpc = "done"
    /\ use_cache /\ seed # None
    /\ test_percentage # None
    /\ Len(data_sizes) = 2
    /\ \A i \in DOMAIN data_sizes :
          CompleteIn(fs0, data_sizes[i], test_percentage)

\* C5: is_cached holds of a key exactly when every file of the key exists;
\* a key with exactly one file missing at the call is, once the loop has
\* passed it, unlinked and rewritten in full.
C5_CompleteIffAllFiles ==
    /\ \A i \in DOMAIN data_sizes :
          /\ is_cached(fs, data_sizes[i], test_percentage)
                <=> CompleteIn(fs, data_sizes[i], test_percentage)
          /\ is_cached(fs0, data_sizes[i], test_percentage)
                <=> CompleteIn(fs0, data_sizes[i], test_percentage)
    /\ \A i \in DOMAIN data_sizes :
          (/\ i < gi \/ gpc = "done"
           /\ Cardinality(ClaimFiles(data_sizes[i], test_percentage) \ DOMAIN fs0) = 1)
             => Regenerated(data_sizes[i])

C5_Witness ==
    /\ gpc = "done"
    /\ use_cache /\ seed = None
    /\ test_percentage # None
    /\ \E i \in DOMAIN data_sizes :
          /\ ClaimFiles(data_sizes[i], test_percentage) \ DOMAIN fs0
                = {Path("test", "label", data_sizes[i], test_percentage, "balsa")}
          /\ Regenerated(data_sizes[i])

\* the label the corpus gives to the row with feature vector x
CorpusLabel(x) == BadCorpus(corpus_rows, bad_row)[x].y

\* C6: at the end of an iteration that regenerated size S, the sample has
\* S + round(pct * S / 100) rows (S when no percentage is given); each
\* train file holds the first S sampled rows and each test file the rest,
\* every row with the label the corpus gives it; without a percentage no
\* test file is ever written.
C6_SplitContents ==
    /\ gpc = "iter_end" =>
          LET S == data_sizes[gi]
              T == IF test_percentage = None THEN 0
                   ELSE PyRound(test_percentage * S, 100)
              Part(p) == IF p = "train"
                         THEN [k \in 1..S |-> new_rows[k]]
                         ELSE [k \in 1..T |-> new_rows[S + k]]
          IN  /\ Len(new_rows) = S + T
              /\ \A k \in DOMAIN new_rows : new_rows[k].y = CorpusLabel(new_rows[k].x)
              /\ \A f \in ClaimFiles(S, test_percentage) :
                    /\ f \in DOMAIN fs
                    /\ Len(fs[f]) = Len(Part(f.purpose))
                    /\ \A k \in DOMAIN fs[f] :
                          /\ (f.kind = "data") => fs[f][k].x = Part(f.purpose)[k].x
                          /\ (f.kind = "label" \/ f.fmt = "csv") =>
                                fs[f][k].y = CorpusLabel(Part(f.purpose)[k].x)
    /\ test_percentage = None =>
          \A k \in DOMAIN oplog :
              oplog[k].op = "write" => oplog[k].file.purpose # "test"

C6_Witness ==
    /\ gpc = "iter_end"
    /\ test_percentage = 50
    /\ data_sizes[gi] = 2
    /\ Len(new_rows) = 3
    /\ new_rows[1].y # new_rows[2].y

\* C8: the corpus is read at most once in a call, from the path the caller
\* gave, and not before a size has to be regenerated (nothing but the
\* unlinks of that size precedes the read); once loaded it never changes.
C8_CorpusLoadedOnce ==
    /\ [](/\ Cardinality(Loads) <= 1
          /\ \A k \in Loads :
                /\ oplog[k].file = SourcePath
                /\ \A j \in 1..(k - 1) :
                      /\ oplog[j].op = "unlink"
                      /\ oplog[j].file.size = oplog[1].file.size
          /\ data_points.loaded <=> Loads # {})
    /\ [][data_points.loaded => data_points' = data_points]_vars

C8_Witness ==
    /\ gpc = "done"
    /\ Cardinality(Loads) = 1
    /\ Len(data_sizes) = 2
    /\ data_sizes[1] # data_sizes[2]
    /\ Regenerated(data_sizes[1])
    /\ Regenerated(data_sizes[2])
    /\ ~CompleteIn(fs0, data_sizes[1], test_percentage)
    /\ ~CompleteIn(fs0, data_sizes[2], test_percentage)

(***************************************************************************)
(* run_program(program, *args, log, time_file, timeout, cwd)               *)
(*                                                                         *)
(* outcome is what the launched program does: it exits with a code, or it  *)
(* does not terminate.  Under the wrapper ("time -v -o time_file") the     *)
(* process that subprocess.run waits for is time, which exits with the     *)
(* status of the program it ran.                                           *)
(***************************************************************************)
MaxExitCode == 2

NoTimeFile == "none"

Outcomes ==
    {[kind |-> "exit", code |-> c] : c \in 0..MaxExitCode}
        \cup {[kind |-> "hang", code |-> None]}

Exc(type, program, code) == [type |-> type, program |-> program, code |-> code]

LogFiles(program, log) ==
    IF log THEN {[name |-> program, stream |-> "stdout"],
                 [name |-> program, stream |-> "stderr"]}
    ELSE {}

TimeFileOf(time_file) ==
    IF time_file # NoTimeFile THEN {[name |-> time_file, stream |-> "time"]} ELSE {}

\* mutant of run_program: the exit code is not looked at
run_program_unchecked(program, time_file, timeout, log, outcome) ==
    IF outcome.kind = "hang"
    THEN IF timeout # None
         THEN [status |-> "raised", returncode |-> None,
               exc |-> Exc("TimeoutExpired", program, None), files |-> {}]
         ELSE [status |-> "blocked", returncode |-> None, exc |-> NoExc, files |-> {}]
    ELSE [status |-> "returned", returncode |-> outcome.code, exc |-> NoExc,
          files |-> LogFiles(program, log) \cup TimeFileOf(time_file)]

run_program(program, time_file, timeout, log, outcome) ==
    IF outcome.kind = "hang"
    THEN IF timeout # None
         THEN [status |-> "raised", returncode |-> None,
               exc |-> Exc("TimeoutExpired", program, None), files |-> {}]
         ELSE [status |-> "blocked", returncode |-> None, exc |-> NoExc, files |-> {}]
    ELSE LET returncode == outcome.code
             files == LogFiles(program, log) \cup TimeFileOf(time_file)
         IN  IF returncode # 0
             THEN [status |-> "raised", returncode |-> returncode,
                   exc |-> Exc("AssertionError", program, returncode),
                   files |-> files]
             ELSE [status |-> "returned", returncode |-> returncode,
                   exc |-> NoExc, files |-> files]

Programs == {"balsa_train", "balsa_classify"}

\* a direct call of run_program
RpCall ==
    /\ rp_pc = "call"
    /\ rp_out' = run_program(rp_in.program, rp_in.time_file, rp_in.timeout,
                             rp_in.log, rp_in.outcome)
    /\ rp_pc' = rp_out'.status
    /\ UNCHANGED <<rmode, rp_in>>
    /\ UNCHANGED <<pgVars, cdVars, tmVars, smpVars, scVars, genVars, drvVars, profVars>>

(***************************************************************************)
(* Driver.run of the balsa driver                                          *)
(***************************************************************************)
Key(prefix, name) == [prefix |-> prefix, name |-> name]

\* get_statistics_from_time_file on the report "time -v" writes
TimeKeys(prefix) ==
    {Key(prefix, n) : n \in {"user-time", "system-time", "percent-cpu",
                             "wall-clock-time", "max-rss"}}

\* get_statistics_from_stdout on the lines the balsa programs print
StdoutKeys(prefix) ==
    IF prefix = "train-"
    THEN {Key(prefix, n) : n \in {"data-load-time", "training-time",
                                  "model-store-time"}}
    ELSE {Key(prefix, n) : n \in {"model-load-time", "data-load-time",
                                  "classification-time", "label-store-time"}}

\* get_classification_scores
ScoreKeys(prefix) ==
    {Key(prefix, n) : n \in {"accuracy", "P4-metric", "ppv", "tpr", "tnr", "npv"}}

\* the keyword arguments profile passes to every driver.run
ProfileKeywords ==
    {"num_estimators", "random_seed", "max_tree_depth", "num_features", "num_threads"}

\* the keyword-only parameters in the signature of each Driver.run
RunKeywords(kind) ==
    IF kind = "balsa"
    THEN {"num_estimators", "random_seed", "max_tree_depth", "num_features", "num_threads"}
    ELSE IF kind = "ranger"
    THEN {"num_estimators", "random_seed", "max_tree_depth", "num_threads"}
    ELSE {"num_estimators", "max_tree_depth", "num_threads"}

\* a call binds when it passes every keyword-only parameter, none of which
\* has a default, and no other keyword
binds(kind, keywords) == keywords = RunKeywords(kind)

call_accepted(kind) == binds(kind, ProfileKeywords)

\* mutant of label_precondition: the test label path is not looked at
label_precondition_train_only(kind, train_label_filename, test_label_filename) ==
    kind = "ranger" => train_label_filename = NoPath

\* ranger.py 26-27: assert train_label_filename is None, and the same for
\* the test labels; the balsa driver has no such assertion
label_precondition(kind, train_label_filename, test_label_filename) ==
    kind = "ranger" => (train_label_filename = NoPath /\ test_label_filename = NoPath)

\* the call of Driver.run: the arguments are bound to the parameters and
\* the assertions at the head of the body are evaluated
DrvEnter ==
    /\ dpc = "call"
    /\ IF ~binds(drv_in.kind, drv_in.keywords)
       THEN dpc' = "raised" /\ dexc' = Exc("TypeError", "none", None)
       ELSE IF ~label_precondition(drv_in.kind, drv_in.train_label_filename,
                                   drv_in.test_label_filename)
       THEN dpc' = "raised" /\ dexc' = Exc("AssertionError", "none", None)
       ELSE dpc' = "train" /\ dexc' = NoExc
    /\ UNCHANGED <<drv_in, drv_stats, launched>>
    /\ UNCHANGED <<pgVars, cdVars, tmVars, smpVars, scVars, genVars, rpVars, profVars>>

\* Driver.get_data_format
get_data_format(kind) ==
    IF kind = "balsa" THEN "balsa"
    ELSE IF kind = "ranger" THEN "csv"
    ELSE "bin"

\* the balsa driver of classifiert/drivers, next to the one of rfcperf
BalsaClassifiert == "balsa-classifiert"

\* the program each driver runs to train and to classify
TrainProgram(kind) ==
    IF kind = "ranger" THEN "ranger"
    ELSE IF kind \in {"lightgbm", "sklearn"} THEN "python"
    ELSE "balsa_train"

TestProgram(kind) ==
    IF kind = "ranger" THEN "ranger"
    ELSE IF kind \in {"lightgbm", "sklearn"} THEN "python"
    ELSE "balsa_classify"

\* the statistics each driver reads from the standard output of the
\* invocation of the phase ("train-" or "test-")
DriverStdoutKeys(kind, phase) ==
    IF kind \in {"balsa", "sklearn"} THEN StdoutKeys(phase)
    ELSE IF kind = "lightgbm"
    THEN IF phase = "test-" THEN StdoutKeys("test-") ELSE {}
    ELSE IF kind = BalsaClassifiert
    THEN IF phase = "test-"
         THEN StdoutKeys("test-")
                 \cup {Key("train-", "max-tree-depth"), Key("train-", "max-node-count")}
         ELSE {}
    ELSE {}

\* the log_prefix argument of the run_program calls of the ranger and
\* sklearn drivers; the other drivers pass none
log_prefix(kind, phase) ==
    IF kind = "ranger" THEN IF phase = "train-" THEN "ranger-train" ELSE "ranger-test"
    ELSE IF kind = "sklearn"
    THEN IF phase = "train-" THEN "sklearn-train" ELSE "sklearn-test"
    ELSE "none"

\* the files run_program persists when it is given a log_prefix; the
\* run_program that takes one is not among the sources, its logs are taken
\* to be named after the prefix as they are after the program otherwise
PrefixedLogFiles(prefix, time_file) == LogFiles(prefix, TRUE) \cup TimeFileOf(time_file)

\* the files an invocation leaves in the run directory
PersistedFiles(kind, phase, r, time_file) ==
    IF log_prefix(kind, phase) = "none" THEN r.files
    ELSE PrefixedLogFiles(log_prefix(kind, phase), time_file)

Launch(program, outcome, files, keys) ==
    [program |-> program, outcome |-> outcome, files |-> files, keys |-> keys]

\* lines 27-37: the training program
DrvTrain ==
    /\ dpc = "train"
    /\ \E outcome \in Outcomes :
          LET program == TrainProgram(drv_in.kind)
              r == run_program(program, "train.time", None, TRUE, outcome)
              files == PersistedFiles(drv_in.kind, "train-", r, "train.time")
              keys == IF r.status = "returned"
                      THEN TimeKeys("train-") \cup DriverStdoutKeys(drv_in.kind, "train-")
                      ELSE {}
          IN  /\ launched' = Append(launched, Launch(program, outcome, files, keys))
              /\ IF r.status = "returned"
                 THEN /\ drv_stats' = drv_stats \cup keys
                      /\ dpc' = "classify"
                      /\ UNCHANGED dexc
                 ELSE /\ dpc' = r.status
                      /\ dexc' = r.exc
                      /\ UNCHANGED drv_stats
    /\ UNCHANGED drv_in
    /\ UNCHANGED <<pgVars, cdVars, tmVars, smpVars, scVars, genVars, rpVars, profVars>>

\* lines 39-42: the classification program
DrvClassify ==
    /\ dpc = "classify"
    /\ \E outcome \in Outcomes :
          LET program == TestProgram(drv_in.kind)
              r == run_program(program, "test.time", None, TRUE, outcome)
              files == PersistedFiles(drv_in.kind, "test-", r, "test.time")
              keys == IF r.status = "returned"
                      THEN TimeKeys("test-") \cup DriverStdoutKeys(drv_in.kind, "test-")
                      ELSE {}
          IN  /\ launched' = Append(launched, Launch(program, outcome, files, keys))
              /\ IF r.status = "returned"
                 THEN /\ drv_stats' = drv_stats \cup keys
                      /\ dpc' = "score"
                      /\ UNCHANGED dexc
                 ELSE /\ dpc' = r.status
                      /\ dexc' = r.exc
                      /\ UNCHANGED drv_stats
    /\ UNCHANGED drv_in
    /\ UNCHANGED <<pgVars, cdVars, tmVars, smpVars, scVars, genVars, rpVars, profVars>>

\* lines 44-49: the predictions are decoded and scored; the decoding or
\* the assertion of get_classification_scores may fail
DrvScore ==
    /\ dpc = "score"
    /\ \E decoded \in BOOLEAN :
          IF decoded
          THEN /\ drv_stats' = drv_stats \cup ScoreKeys("test-")
               /\ dpc' = "returned"
               /\ UNCHANGED dexc
          ELSE /\ dpc' = "raised"
               /\ dexc' = Exc("AssertionError", "none", None)
               /\ UNCHANGED drv_stats
    /\ UNCHANGED <<drv_in, launched>>
    /\ UNCHANGED <<pgVars, cdVars, tmVars, smpVars, scVars, genVars, rpVars, profVars>>

(***************************************************************************)
(* Specification of the process runner: one direct call of run_program,    *)
(* or one call of Driver.run.                                              *)
(***************************************************************************)
Timeouts == {None, 60}

\* the drivers whose run is exercised by a call of its own
DirectDrivers == {"balsa", BalsaClassifiert, "lightgbm", "ranger", "sklearn"}

RunInit ==
    /\ GenIdle /\ ProfIdle /\ SmpIdle /\ ScIdle /\ CdIdle /\ TmIdle
    /\ PgIdle /\ bad_row = 0
    /\ \/ /\ rmode = "program"
          /\ rp_in \in [program : Programs,
                        time_file : {NoTimeFile, "train.time", "test.time"},
                        timeout : Timeouts,
                        log : BOOLEAN,
                        outcome : Outcomes]
          /\ rp_pc = "call"
          /\ rp_out = NoResult
          /\ DrvIdle
       \/ /\ rmode = "driver"
          /\ rp_in = NoCall /\ rp_pc = "idle" /\ rp_out = NoResult
          /\ \E kind \in DirectDrivers, train_format, test_format \in Range(DATA_FORMATS),
                size \in 1..MaxSize, keywords \in {RunKeywords(k) : k \in DirectDrivers} :
                drv_in = DrvCall(kind,
                                 get_train_dataset_filenames(train_format, size, 50)[2],
                                 get_test_dataset_filenames(test_format, size, 50)[2],
                                 keywords)
          /\ dpc = "call" /\ drv_stats = {} /\ launched = <<>> /\ dexc = NoExc

RunNext == RpCall \/ DrvEnter \/ DrvTrain \/ DrvClassify \/ DrvScore

RunSpec == RunInit /\ [][RunNext]_vars

\* C2: run_program raises, naming the program and its exit code, whenever
\* the launched program exits with a non-zero code, with the wrapper and
\* without it, and gives no result back; Driver.run therefore never returns
\* after an engine has failed, and the mapping it returns is complete.
C2_NonZeroExitRaises ==
    /\ (rp_pc # "call" /\ rp_in.outcome.kind = "exit" /\ rp_in.outcome.code # 0) =>
          /\ rp_pc = "raised"
          /\ rp_out.status = "raised"
          /\ rp_out.exc.program = rp_in.program
          /\ rp_out.exc.code = rp_in.outcome.code
    /\ \A k \in DOMAIN launched :
          (launched[k].outcome.kind = "exit" /\ launched[k].outcome.code # 0) =>
              /\ k = Len(launched)
              /\ dpc = "raised"
              /\ dexc.program = launched[k].program
              /\ dexc.code = launched[k].outcome.code
    /\ dpc = "returned" =>
          /\ Len(launched) = 2
          /\ TimeKeys("train-") \cup TimeKeys("test-") \cup ScoreKeys("test-")
                \subseteq drv_stats

C2_Witness ==
    /\ rp_pc = "raised"
    /\ rp_in.time_file # NoTimeFile
    /\ rp_in.outcome = [kind |-> "exit", code |-> 2]
    /\ rp_out.exc = Exc("AssertionError", rp_in.program, 2)

(***************************************************************************)
(* profile: the configuration is loaded (lines 28-35), then the loop over  *)
(* classifiers and data sizes runs (lines 57-107).  The generation of the  *)
(* datasets and the creation of run_path in between (lines 37-55) are the  *)
(* subject of the specification of generate_datasets.                      *)
(***************************************************************************)
MaxClassifiers == 2

\* the exception types that are subclasses of Exception
ExceptionTypes == {"AssertionError", "TypeError", "TimeoutExpired", "RuntimeError"}

\* mutant of caught: the handler names AssertionError only
caught_assertion_only(type) == type = "AssertionError"

\* line 98: except Exception
caught(type) == type \in ExceptionTypes

\* the keys write_report reads with d[key]
ReportNeeds ==
    {Key(p, n) : p \in {"train-", "test-"}, n \in {"user-time", "system-time", "max-rss"}}

write_report_ok(stats_lists) ==
    \A l \in stats_lists : \A k \in DOMAIN l : ReportNeeds \subseteq l[k].keys

ClassifierDir(name) == [classifier |-> name, size |-> None]

RunDir(name, size) == [classifier |-> name, size |-> size]

ProfInit ==
    /\ GenIdle /\ RpIdle /\ DrvIdle /\ SmpIdle /\ ScIdle /\ CdIdle /\ TmIdle
    /\ PgIdle /\ bad_row = 0
    /\ sections \in {Sections, MalformedSections}
    /\ pexc = NoAbort
    /\ classifiers \in UNION {[1..n -> ClassifierNames] : n \in 1..MaxClassifiers}
    /\ psizes \in SortedSizeLists
    /\ ptimeout \in Timeouts
    /\ ppc = "config"
    /\ ci = 1 /\ si = 0
    /\ dirs = {}
    /\ run_statistics = [data_size |-> None, keys |-> {}]
    /\ classifier_statistics = <<>>
    /\ statistics = <<>>
    /\ reports = <<>>
    /\ attempts = <<>>

classifier_name == classifiers[ci]

\* lines 28-35: the configuration is loaded; only FileNotFoundError is
\* handled
ProfLoadConfig ==
    /\ ppc = "config"
    /\ IF load_config_ok(sections)
       THEN /\ ppc' = "classifier"
            /\ pexc' = pexc
       ELSE /\ ppc' = "aborted"
            /\ pexc' = Abort("KeyError", "load_config")
    /\ UNCHANGED <<sections, classifiers, psizes, ptimeout, ci, si, dirs, run_statistics,
                   classifier_statistics, statistics, reports, attempts>>
    /\ UNCHANGED <<pgVars, cdVars, tmVars, smpVars, scVars, genVars, rpVars, drvVars>>

\* lines 63-67: the classifier is not in the configuration
ProfUnknownClassifier ==
    /\ ppc = "classifier"
    /\ ci <= Len(classifiers)
    /\ classifier_name \notin DOMAIN Config
    /\ ci' = ci + 1
    /\ UNCHANGED <<sections, classifiers, psizes, ptimeout, ppc, si, dirs, run_statistics,
                   classifier_statistics, statistics, reports, attempts, pexc>>
    /\ UNCHANGED <<pgVars, cdVars, tmVars, smpVars, scVars, genVars, rpVars, drvVars>>

\* lines 63-75: the driver is built and the classifier's directory made
ProfClassifier ==
    /\ ppc = "classifier"
    /\ ci <= Len(classifiers)
    /\ classifier_name \in DOMAIN Config
    /\ IF ~get_driver_ok(Config[classifier_name])
       THEN \* line 69: get_driver raises KeyError
            /\ ppc' = "aborted"
            /\ pexc' = Abort("KeyError", "get_driver")
            /\ UNCHANGED <<dirs, si, classifier_statistics>>
       ELSE IF ~constructed(Config[classifier_name], ConfigArgs[classifier_name])
       THEN \* line 69: the constructor raises TypeError
            /\ ppc' = "aborted"
            /\ pexc' = Abort("TypeError", "Driver")
            /\ UNCHANGED <<dirs, si, classifier_statistics>>
       ELSE IF ClassifierDir(classifier_name) \in dirs
       THEN \* mkdir raises FileExistsError
            /\ ppc' = "aborted"
            /\ pexc' = Abort("FileExistsError", "mkdir")
            /\ UNCHANGED <<dirs, si, classifier_statistics>>
       ELSE /\ dirs' = dirs \cup {ClassifierDir(classifier_name)}
            /\ classifier_statistics' = <<>>
            /\ si' = 1
            /\ ppc' = "size"
            /\ pexc' = pexc
    /\ UNCHANGED <<sections, classifiers, psizes, ptimeout, ci, run_statistics,
                   statistics, reports, attempts>>
    /\ UNCHANGED <<pgVars, cdVars, tmVars, smpVars, scVars, genVars, rpVars, drvVars>>

\* lines 76-97: the run directory is made and driver.run is called
ProfSize ==
    /\ ppc = "size"
    /\ si <= Len(psizes)
    /\ run_statistics' = [data_size |-> psizes[si], keys |-> {}]
    /\ IF RunDir(classifier_name, psizes[si]) \in dirs
       THEN \* mkdir raises FileExistsError
            /\ ppc' = "aborted"
            /\ pexc' = Abort("FileExistsError", "mkdir")
            /\ UNCHANGED <<dirs, drvVars>>
       ELSE /\ dirs' = dirs \cup {RunDir(classifier_name, psizes[si])}
            /\ ppc' = "run"
            /\ pexc' = pexc
            /\ drv_stats' = {}
            /\ launched' = <<>>
            /\ dexc' = NoExc
            /\ dpc' = "call"
            /\ LET kind == Config[classifier_name]
                   data_format == get_data_format(kind)
               IN  drv_in' = DrvCall(
                       kind,
                       run_train_dataset_filenames(data_format, psizes[si],
                                                   test_percentage)[2],
                       run_test_dataset_filenames(pg_in.test_data_filename, data_format,
                                                  psizes[si], test_percentage)[2],
                       ProfileKeywords)
    /\ UNCHANGED <<sections, classifiers, psizes, ptimeout, ci, si,
                   classifier_statistics, statistics, reports, attempts>>
    /\ UNCHANGED <<pgVars, cdVars, tmVars, smpVars, scVars, genVars, rpVars>>

\* lines 98-99: driver.run raised
ProfExcept ==
    /\ ppc = "run"
    /\ dpc = "raised"
    /\ IF caught(dexc.type)
       THEN /\ ppc' = "size"
            /\ si' = si + 1
            /\ attempts' = Append(attempts, <<ci, si, FALSE>>)
            /\ pexc' = pexc
       ELSE /\ ppc' = "aborted"
            /\ pexc' = Abort(dexc.type, "run")
            /\ UNCHANGED <<si, attempts>>
    /\ dpc' = "idle"
    /\ dexc' = NoExc
    /\ UNCHANGED <<drv_in, drv_stats, launched>>
    /\ UNCHANGED <<sections, classifiers, psizes, ptimeout, ci, dirs, run_statistics,
                   classifier_statistics, statistics, reports>>
    /\ UNCHANGED <<pgVars, cdVars, tmVars, smpVars, scVars, genVars, rpVars>>

\* lines 88, 100-101: driver.run returned
ProfElse ==
    /\ ppc = "run"
    /\ dpc = "returned"
    /\ run_statistics' = [run_statistics EXCEPT !.keys = @ \cup drv_stats]
    /\ classifier_statistics' = Append(classifier_statistics, run_statistics')
    /\ attempts' = Append(attempts, <<ci, si, TRUE>>)
    /\ ppc' = "size"
    /\ si' = si + 1
    /\ dpc' = "idle"
    /\ UNCHANGED <<drv_in, drv_stats, launched, dexc>>
    /\ UNCHANGED <<sections, classifiers, psizes, ptimeout, ci, dirs, statistics, reports,
                   pexc>>
    /\ UNCHANGED <<pgVars, cdVars, tmVars, smpVars, scVars, genVars, rpVars>>

\* lines 103-104: the sizes are exhausted, the classifier is reported
ProfEndClassifier ==
    /\ ppc = "size"
    /\ si > Len(psizes)
    /\ IF write_report_ok({classifier_statistics})
       THEN /\ reports' = Append(reports, classifier_name)
            /\ statistics' = (classifier_name :> classifier_statistics) @@ statistics
            /\ ci' = ci + 1
            /\ ppc' = "classifier"
            /\ pexc' = pexc
       ELSE /\ ppc' = "aborted"
            /\ pexc' = Abort("KeyError", "write_report")
            /\ UNCHANGED <<reports, statistics, ci>>
    /\ UNCHANGED <<sections, classifiers, psizes, ptimeout, si, dirs, run_statistics,
                   classifier_statistics, attempts>>
    /\ UNCHANGED <<pgVars, cdVars, tmVars, smpVars, scVars, genVars, rpVars, drvVars>>

\* line 107: the classifiers are exhausted, the combined report is written
ProfDone ==
    /\ ppc = "classifier"
    /\ ci > Len(classifiers)
    /\ reports' = Append(reports, "all")
    /\ ppc' = "done"
    /\ UNCHANGED <<sections, classifiers, psizes, ptimeout, ci, si, dirs, run_statistics,
                   classifier_statistics, statistics, attempts, pexc>>
    /\ UNCHANGED <<pgVars, cdVars, tmVars, smpVars, scVars, genVars, rpVars, drvVars>>

ProfNext ==
    \/ ProfLoadConfig
    \/ ProfUnknownClassifier
    \/ ProfClassifier
    \/ ProfSize
    \/ DrvEnter
    \/ DrvTrain
    \/ DrvClassify
    \/ DrvScore
    \/ ProfExcept
    \/ ProfElse
    \/ ProfEndClassifier
    \/ ProfDone

ProfileSpec == ProfInit /\ [][ProfNext]_vars

(***************************************************************************)
(* Properties of profile.                                                  *)
(***************************************************************************)
\* the size indices of the runs of classifier c that succeeded, in the
\* order in which they were made
SucceededOf(c) ==
    LET Mine(a) == a[1] = c /\ a[3]
        runs == SelectSeq(attempts, Mine)
    IN  [k \in DOMAIN runs |-> runs[k][2]]

\* l holds exactly one entry, carrying data_size, for each index of idx
EntriesMatch(l, idx) ==
    /\ Len(l) = Len(idx)
    /\ \A k \in DOMAIN l : l[k].data_size = psizes[idx[k]]
    /\ \A j, k \in DOMAIN idx : j < k => idx[j] < idx[k]

\* C1: when driver.run raises, profile goes on with the next size of the
\* same classifier and leaves the collected statistics as they are; the
\* list of a classifier holds exactly one entry, carrying data_size, for
\* each pair that succeeded, in size-list order; and when profile returns
\* every pair of every configured classifier has been run, in order.
C1_FailureDropsOnlyThePair ==
    /\ [][(ppc = "run" /\ dpc = "raised") =>
            /\ ppc' = "size"
            /\ si' = si + 1
            /\ ci' = ci
            /\ classifier_statistics' = classifier_statistics
            /\ statistics' = statistics]_vars
    /\ [](/\ ppc \in {"size", "run"} =>
                EntriesMatch(classifier_statistics, SucceededOf(ci))
          /\ ppc = "done" =>
                LET known == {c \in DOMAIN classifiers : classifiers[c] \in DOMAIN Config}
                    Pairs == {<<c, z>> : c \in known, z \in DOMAIN psizes}
                IN  /\ Len(attempts) = Cardinality(Pairs)
                    /\ \A pr \in Pairs :
                          \E k \in DOMAIN attempts :
                              attempts[k][1] = pr[1] /\ attempts[k][2] = pr[2]
                    /\ \A j, k \in DOMAIN attempts :
                          j < k => \/ attempts[j][1] < attempts[k][1]
                                   \/ /\ attempts[j][1] = attempts[k][1]
                                      /\ attempts[j][2] < attempts[k][2]
                    /\ DOMAIN statistics = {classifiers[c] : c \in known}
                    /\ \A c \in known :
                          EntriesMatch(statistics[classifiers[c]], SucceededOf(c)))

C1_Witness ==
    /\ ppc = "done"
    /\ \E i, j, k \in DOMAIN attempts :
          /\ i < j /\ j < k
          /\ ~attempts[i][3]
          /\ attempts[j][3] /\ attempts[j][1] = attempts[i][1]
          /\ attempts[k][3] /\ attempts[k][1] > attempts[i][1]

(***************************************************************************)
(* Properties of sample_dataset.                                           *)
(***************************************************************************)
NoDuplicateRows ==
    /\ (spc \in {"store", "done"} /\ sample_size # None /\ ~with_replacement) =>
          Injective(s_index)
    /\ \A j, k \in DOMAIN new_rows : new_rows[j].x = new_rows[k].x => j = k

OversizedRequestFails ==
    (spc # "start" /\ sample_size # None /\ ~with_replacement
        /\ sample_size > s_rows_in) =>
            spc = "raised" /\ sexc = "AssertionError" /\ s_index = <<>>

SamplingFailed == spc = "raised" /\ sexc \in {"AssertionError", "ValueError"}

\* C7 as stated: without replacement no row index is drawn twice (neither
\* by the sample command nor by generate_datasets, whose train and test
\* splits are cut from one sample); a request for more rows than the
\* dataset has fails on the assertion before a row is drawn; with
\* replacement a request of any size is accepted.
C7_Original ==
    /\ NoDuplicateRows
    /\ OversizedRequestFails
    /\ (sample_size # None /\ with_replacement) => ~SamplingFailed

\* C7 as amended: with replacement a request of any size is accepted when
\* the dataset has at least one row, and then draws sample_size indices.
C7_SamplingPreconditions ==
    /\ NoDuplicateRows
    /\ OversizedRequestFails
    /\ (sample_size # None /\ with_replacement /\ s_rows_in >= 1) =>
          /\ ~SamplingFailed
          /\ spc # "start" => Len(s_index) = sample_size

C7_Witness ==
    /\ spc = "done"
    /\ with_replacement
    /\ sample_size > s_rows_in
    /\ s_rows_in >= 2
    /\ ~Injective(s_index)

(***************************************************************************)
(* get_classification_scores(predicted_labels, labels)                     *)
(*                                                                         *)
(* The input is given by the number of positions holding each pair of      *)
(* labels: tp = (1, 1), fp = (1, 0), tn = (0, 0), fn = (0, 1), other = a   *)
(* pair with a label that is neither 0 nor 1.  A metric is the exact       *)
(* quotient [num, den] of the division the code makes.                     *)
(***************************************************************************)
MaxOther == 1

Frac(num, den) == [num |-> num, den |-> den]

Zero == Frac(0, 1)

FracEq(a, b) == a.num * b.den = b.num * a.den

accuracy(tp, fp, tn, fn) ==
    LET denominator == tp + fp + tn + fn
    IN  IF denominator = 0 THEN Zero ELSE Frac(tp + tn, denominator)

P4_metric(tp, fp, tn, fn) ==
    LET denominator == 4 * tp * tn + (tp + tn) * (fp + fn)
    IN  IF denominator = 0 THEN Zero ELSE Frac(4 * tp * tn, denominator)

positive_predictive_value(tp, fp, tn, fn) ==
    LET denominator == tp + fp
    IN  IF denominator = 0 THEN Zero ELSE Frac(tp, denominator)

\* mutant of true_positive_rate: the denominator of the precision
true_positive_rate_wrong_denominator(tp, fp, tn, fn) ==
    LET denominator == tp + fp
    IN  IF denominator = 0 THEN Zero ELSE Frac(tp, denominator)

true_positive_rate(tp, fp, tn, fn) ==
    LET denominator == tp + fn
    IN  IF denominator = 0 THEN Zero ELSE Frac(tp, denominator)

\* mutant of true_negative_rate: the denominator of the NPV
true_negative_rate_wrong_denominator(tp, fp, tn, fn) ==
    LET denominator == tn + fn
    IN  IF denominator = 0 THEN Zero ELSE Frac(tn, denominator)

true_negative_rate(tp, fp, tn, fn) ==
    LET denominator == tn + fp
    IN  IF denominator = 0 THEN Zero ELSE Frac(tn, denominator)

negative_predictive_value(tp, fp, tn, fn) ==
    LET denominator == tn + fn
    IN  IF denominator = 0 THEN Zero ELSE Frac(tn, denominator)

ScInit ==
    /\ sc_in \in [tp : 0..MaxCount, fp : 0..MaxCount, tn : 0..MaxCount,
                  fn : 0..MaxCount, other : 0..MaxOther]
    /\ sc_pc = "call"
    /\ target_dict = <<>>

\* len(labels)
InputLength == sc_in.tp + sc_in.fp + sc_in.tn + sc_in.fn + sc_in.other

\* mutant of counts_add_up: the assertion of line 116 is left out
counts_add_up_unchecked(num_total, length) == TRUE

\* line 116: assert num_total == len(labels)
counts_add_up(num_total, length) == num_total = length

\* lines 110-134: the counts add up and the six metrics are written
ScScore ==
    /\ sc_pc = "call"
    /\ LET num_true_positives == sc_in.tp
           num_false_positives == sc_in.fp
           num_true_negatives == sc_in.tn
           num_false_negatives == sc_in.fn
           num_total == num_true_positives + num_false_positives
                            + num_true_negatives + num_false_negatives
       IN  /\ counts_add_up(num_total, InputLength)
           /\ target_dict' =
                [accuracy |-> accuracy(num_true_positives, num_false_positives,
                                       num_true_negatives, num_false_negatives),
                 P4 |-> P4_metric(num_true_positives, num_false_positives,
                                  num_true_negatives, num_false_negatives),
                 ppv |-> positive_predictive_value(num_true_positives, num_false_positives,
                                                   num_true_negatives, num_false_negatives),
                 tpr |-> true_positive_rate(num_true_positives, num_false_positives,
                                            num_true_negatives, num_false_negatives),
                 tnr |-> true_negative_rate(num_true_positives, num_false_positives,
                                            num_true_negatives, num_false_negatives),
                 npv |-> negative_predictive_value(num_true_positives, num_false_positives,
                                                   num_true_negatives, num_false_negatives)]
    /\ sc_pc' = "returned"
    /\ UNCHANGED sc_in
    /\ UNCHANGED <<pgVars, cdVars, tmVars, genVars, rpVars, drvVars, profVars, smpVars>>

\* line 116: the counts do not add up to the input length
ScAssertFail ==
    /\ sc_pc = "call"
    /\ ~counts_add_up(sc_in.tp + sc_in.fp + sc_in.tn + sc_in.fn, InputLength)
    /\ sc_pc' = "raised"
    /\ UNCHANGED <<sc_in, target_dict>>
    /\ UNCHANGED <<pgVars, cdVars, tmVars, genVars, rpVars, drvVars, profVars, smpVars>>

ScoreInit ==
    /\ ScInit /\ GenIdle /\ RpIdle /\ DrvIdle /\ ProfIdle /\ SmpIdle
    /\ CdIdle /\ TmIdle /\ PgIdle /\ bad_row = 0

ScoreNext == ScScore \/ ScAssertFail

ScoreSpec == ScoreInit /\ [][ScoreNext]_vars

\* the quotient num / den, and 0 when den is 0
Ratio(value, num, den) ==
    IF den = 0 THEN value.num = 0 ELSE FracEq(value, Frac(num, den))

\* C9: for all counts the six metrics are the quotients of the
\* specification, each of them 0 when its denominator is 0, and inputs
\* holding only labels 0 and 1 never raise; for the empty input all six
\* metrics are 0.
C9_ScoreFormulas ==
    LET TP == sc_in.tp
        FP == sc_in.fp
        TN == sc_in.tn
        FN == sc_in.fn
    IN  /\ (sc_pc # "call" /\ sc_in.other = 0) => sc_pc = "returned"
        /\ sc_pc = "returned" =>
              /\ Ratio(target_dict.accuracy, TP + TN, TP + FP + TN + FN)
              /\ Ratio(target_dict.ppv, TP, TP + FP)
              /\ Ratio(target_dict.tpr, TP, TP + FN)
              /\ Ratio(target_dict.tnr, TN, TN + FP)
              /\ Ratio(target_dict.npv, TN, TN + FN)
              /\ Ratio(target_dict.P4, 4 * TP * TN,
                       4 * TP * TN + (TP + TN) * (FP + FN))
              /\ (TP = 0 /\ FP = 0 /\ TN = 0 /\ FN = 0) =>
                    \A k \in DOMAIN target_dict : target_dict[k].num = 0

C9_Witness ==
    /\ sc_pc = "returned"
    /\ sc_in = [tp |-> 0, fp |-> 0, tn |-> 3, fn |-> 2, other |-> 0]
    /\ target_dict.ppv.num = 0
    /\ target_dict.tpr.num = 0
    /\ FracEq(target_dict.tnr, Frac(1, 1))
    /\ FracEq(target_dict.npv, Frac(3, 5))

TheExample == [tp |-> 8, fp |-> 1, tn |-> 8, fn |-> 3, other |-> 0]

\* C10 as stated: for TP=8, FP=1, TN=8, FN=3 the accuracy is 0.8, the
\* precision 8/9, the recall 0.8, the specificity 8/9 and the NPV 8/11.
C10_Original ==
    (sc_pc = "returned" /\ sc_in = TheExample) =>
        /\ FracEq(target_dict.accuracy, Frac(8, 10))
        /\ FracEq(target_dict.ppv, Frac(8, 9))
        /\ FracEq(target_dict.tpr, Frac(8, 10))
        /\ FracEq(target_dict.tnr, Frac(8, 9))
        /\ FracEq(target_dict.npv, Frac(8, 11))

\* C10 as amended: for TP=8, FP=1, TN=8, FN=3 the accuracy is 0.8, the
\* precision 8/9, the recall 8/11, the specificity 8/9 and the NPV 8/11.
C10_ExampleScores ==
    (sc_pc = "returned" /\ sc_in = TheExample) =>
        /\ FracEq(target_dict.accuracy, Frac(8, 10))
        /\ FracEq(target_dict.ppv, Frac(8, 9))
        /\ FracEq(target_dict.tpr, Frac(8, 11))
        /\ FracEq(target_dict.tnr, Frac(8, 9))
        /\ FracEq(target_dict.npv, Frac(8, 11))

C10_Witness ==
    /\ sc_pc = "returned"
    /\ sc_in = TheExample
    /\ target_dict.tpr = Frac(8, 11)

\* C11: for label sequences of equal length the call raises exactly when
\* the four counts do not add up to the input length, which is exactly when
\* some position holds a label other than 0 and 1; a call that raises has
\* written no metric into the target mapping, a call that returns has
\* written all six.
C11_LabelDomainAsserted ==
    LET num_total == sc_in.tp + sc_in.fp + sc_in.tn + sc_in.fn
    IN  /\ (num_total # InputLength) <=> (sc_in.other > 0)
        /\ sc_pc # "call" =>
              /\ (sc_pc = "raised") <=> (num_total # InputLength)
              /\ (sc_pc = "raised") <=> (sc_in.other > 0)
        /\ sc_pc = "raised" => target_dict = <<>>
        /\ sc_pc = "returned" =>
              DOMAIN target_dict = {"accuracy", "P4", "ppv", "tpr", "tnr", "npv"}

C11_Witness ==
    /\ sc_pc = "raised"
    /\ sc_in.other = 1
    /\ sc_in.tp + sc_in.tn + sc_in.fp + sc_in.fn = 3
    /\ target_dict = <<>>

(***************************************************************************)
(* The dataset files of rfcperf/data.py.                                   *)
(*                                                                         *)
(* A file is the sequence of the items written to it: 4-byte words (the    *)
(* magics, the markers and the float32 scalars, each named by its bytes),  *)
(* unsigned integers of the headers and the key-value pairs of the balsa   *)
(* dictionaries.  A dataset is [shape, flat]: the numpy shape and the      *)
(* scalars in row-major order.                                             *)
(***************************************************************************)
MaxDRows == 2
MaxCols == 2

Word(w) == [t |-> "word", key |-> "", ty |-> "", s |-> w, n |-> 0]

UInt(ty, n) == [t |-> ty, key |-> "", ty |-> ty, s |-> "", n |-> n]

KvInt(key, ty, n) == [t |-> "kv", key |-> key, ty |-> ty, s |-> "", n |-> n]

KvStr(key, value) == [t |-> "kv", key |-> key, ty |-> "strn", s |-> value, n |-> 0]

\* infile.read(4) at the end of the file returns the empty bytes object
EndOfFile == Word("")

\* float32 values, named by their four bytes: 0.0, 1.0 and the value whose
\* little-endian bytes are 6c 62 61 74
Float32s == {"0.0", "1.0", "lbat"}

Dataset(shape, flat) == [shape |-> shape, flat |-> flat]

Datasets ==
    UNION {{Dataset(<<r>>, flat) : flat \in [1..r -> Float32s]} : r \in 0..MaxDRows}
    \cup UNION {{Dataset(<<r, c>>, flat) : flat \in [1..(r * c) -> Float32s]} :
                   r \in 0..MaxDRows, c \in 1..MaxCols}

\* num_rows, num_columns = (*dataset.shape, 1)[:2]
shape_rows_columns(shape) == SubSeq(shape \o <<1>>, 1, 2)

\* dataset[i].tobytes(): the scalars of row i (of the scalar i of a vector)
tobytes(dataset, i) ==
    LET width == IF Len(dataset.shape) = 1 THEN 1 ELSE dataset.shape[2]
    IN  [k \in 1..width |-> Word(dataset.flat[(i - 1) * width + k])]

RECURSIVE write_rows(_, _, _)
write_rows(dataset, i, num_rows) ==
    IF i > num_rows THEN <<>>
    ELSE tobytes(dataset, i) \o write_rows(dataset, i + 1, num_rows)

\* mutant of store_dataset_bin: the header holds the row count
store_dataset_bin_rows_in_header(dataset) ==
    LET num_rows == shape_rows_columns(dataset.shape)[1]
    IN  <<UInt("ui32", num_rows)>> \o write_rows(dataset, 1, num_rows)

store_dataset_bin(dataset) ==
    LET num_rows == shape_rows_columns(dataset.shape)[1]
        num_columns == shape_rows_columns(dataset.shape)[2]
    IN  <<UInt("ui32", num_columns)>> \o write_rows(dataset, 1, num_rows)

Loaded(status, shape, flat) == [status |-> status, shape |-> shape, flat |-> flat]

Failed(exception) == Loaded(exception, <<>>, <<>>)

Scalars(items) == [k \in DOMAIN items |-> items[k].s]

\* np.frombuffer(...) followed by dataset.shape = (-1, num_columns)
reshape(items, num_columns) ==
    IF num_columns = 0 \/ Len(items) % num_columns # 0
    THEN Failed("ValueError")
    ELSE Loaded("ok", <<Len(items) \div num_columns, num_columns>>, Scalars(items))

load_dataset_bin(file) ==
    LET num_columns == file[1].n
    IN  reshape(Tail(file), num_columns)

\* mutant of store_dataset_balsa: row_count and column_count change places
store_dataset_balsa_counts_swapped(dataset) ==
    LET num_rows == shape_rows_columns(dataset.shape)[1]
        num_columns == shape_rows_columns(dataset.shape)[2]
    IN  <<Word("blsa"), Word("lend"),
          Word("dict"), UInt("ui08", 2),
          KvInt("file_major_version", "ui08", 1),
          KvInt("file_minor_version", "ui08", 0),
          Word("tcid"),
          Word("tabl"),
          Word("dict"), UInt("ui08", 3),
          KvInt("row_count", "ui32", num_columns),
          KvInt("column_count", "ui32", num_rows),
          KvStr("scalar_type_id", "fl32"),
          Word("tcid")>>
        \o write_rows(dataset, 1, num_rows)
        \o <<Word("lbat")>>

store_dataset_balsa(dataset) ==
    LET num_rows == shape_rows_columns(dataset.shape)[1]
        num_columns == shape_rows_columns(dataset.shape)[2]
    IN  <<Word("blsa"), Word("lend"),
          Word("dict"), UInt("ui08", 2),
          KvInt("file_major_version", "ui08", 1),
          KvInt("file_minor_version", "ui08", 0),
          Word("tcid"),
          Word("tabl"),
          Word("dict"), UInt("ui08", 3),
          KvInt("row_count", "ui32", num_rows),
          KvInt("column_count", "ui32", num_columns),
          KvStr("scalar_type_id", "fl32"),
          Word("tcid")>>
        \o write_rows(dataset, 1, num_rows)
        \o <<Word("lbat")>>

\* the item a read at position pos returns
ItemAt(file, pos) == IF pos \in DOMAIN file THEN file[pos] ELSE EndOfFile

ValueTypes == {"strn", "ui08", "ui32", "fl32", "fl64"}

\* read_kv_pair: the value type must be a known one
read_kv_pair_ok(item) == item.t = "kv" /\ item.ty \in ValueTypes

\* read_dictionary(infile) with the file position at pos: the positions of
\* the pairs read and the position after the end marker
read_dictionary(file, pos) ==
    LET dict_start_marker == ItemAt(file, pos)
        dict_size == ItemAt(file, pos + 1).n
        pairs == (pos + 2)..(pos + 1 + dict_size)
        dict_end_marker == ItemAt(file, pos + 2 + dict_size)
    IN  IF dict_start_marker # Word("dict")
        THEN [status |-> "AssertionError", pairs |-> {}, next |-> pos]
        ELSE IF \E k \in pairs : ~read_kv_pair_ok(ItemAt(file, k))
        THEN [status |-> "AssertionError", pairs |-> {}, next |-> pos]
        ELSE IF dict_end_marker # Word("tcid")
        THEN [status |-> "AssertionError", pairs |-> {}, next |-> pos]
        ELSE [status |-> "ok", pairs |-> pairs, next |-> pos + 3 + dict_size]

HasKey(file, dict, key) == \E k \in dict.pairs : file[k].key = key

\* result[key]: the pair read last under the key
Lookup(file, dict, key) ==
    LET k == CHOOSE k \in dict.pairs :
                 /\ file[k].key = key
                 /\ \A j \in dict.pairs : file[j].key = key => j <= k
    IN  file[k]

Min(a, b) == IF a < b THEN a ELSE b

\* line 125: assert table_end_marker == b"lbat"
table_end_marker_ok(file, pos) == ItemAt(file, pos) = Word("lbat")

\* lines 108-127, after the table header: infile.read(size) returns at most
\* the items left in the file (a scalar is one item, whatever its width)
load_table(file, pos, num_rows, num_columns, scalar_type_id) ==
    IF scalar_type_id \in {"fl32", "ui08"}
    THEN LET size == num_rows * num_columns
             last == Min(pos + size - 1, Len(file))
             dataset == reshape(SubSeq(file, pos, last), num_columns)
         IN  IF dataset.status # "ok" THEN dataset
             ELSE IF dataset.shape[1] # num_rows THEN Failed("AssertionError")
             ELSE IF ~table_end_marker_ok(file, last + 1) THEN Failed("AssertionError")
             ELSE dataset
    ELSE Failed("RuntimeError")

load_dataset_balsa(file) ==
    IF ItemAt(file, 1) # Word("blsa") THEN Failed("AssertionError")
    ELSE IF ItemAt(file, 2) # Word("lend") THEN Failed("AssertionError")
    ELSE LET file_header == read_dictionary(file, 3)
         IN  IF file_header.status # "ok" THEN Failed(file_header.status)
             ELSE IF ~HasKey(file, file_header, "file_major_version")
                 THEN Failed("KeyError")
             ELSE IF Lookup(file, file_header, "file_major_version").n # 1
                 THEN Failed("AssertionError")
             ELSE IF ~HasKey(file, file_header, "file_minor_version")
                 THEN Failed("KeyError")
             ELSE IF Lookup(file, file_header, "file_minor_version").n # 0
                 THEN Failed("AssertionError")
             ELSE IF ItemAt(file, file_header.next) # Word("tabl")
                 THEN Failed("AssertionError")
             ELSE LET table_header == read_dictionary(file, file_header.next + 1)
                  IN  IF table_header.status # "ok" THEN Failed(table_header.status)
                      ELSE IF \E key \in {"row_count", "column_count", "scalar_type_id"} :
                                  ~HasKey(file, table_header, key)
                          THEN Failed("KeyError")
                      ELSE load_table(file, table_header.next,
                                      Lookup(file, table_header, "row_count").n,
                                      Lookup(file, table_header, "column_count").n,
                                      Lookup(file, table_header, "scalar_type_id").s)

(***************************************************************************)
(* The exercise of the dataset files: a dataset is stored in a format,     *)
(* the file is possibly altered in one place, and loaded again; or one     *)
(* store_labelled_dataset request is made on a directory that may hold     *)
(* the files of an earlier request.                                        *)
(***************************************************************************)
Alteration(kind, m, s, n) == [kind |-> kind, m |-> m, s |-> s, n |-> n]

NoAlteration == Alteration("none", 0, "", 0)

\* the magics and markers of a balsa file, in file order
MarkerWords == <<"blsa", "lend", "dict", "tcid", "tabl", "dict", "tcid", "lbat">>

MarkerPositions(file) == <<1, 2, 3, 7, 8, 9, 14, Len(file)>>

RowCountPosition == 11

ScalarTypePosition == 13

ReplacementWords == {"XXXX", "dict", "lbat", "0.0"}

UnsupportedScalarTypes == {"fl64", "ui32"}

Alterations ==
    {NoAlteration}
    \cup {Alteration("marker", m, w, 0) :
             m \in DOMAIN MarkerWords, w \in ReplacementWords}
    \cup {Alteration("scalar_type_id", 0, ty, 0) : ty \in UnsupportedScalarTypes}
    \cup {Alteration("row_count", 0, "", n) : n \in 0..(MaxDRows + 1)}

\* an alteration changes what the stored file holds
Alters(dataset, a) ==
    CASE a.kind = "marker" -> a.s # MarkerWords[a.m]
      [] a.kind = "row_count" -> a.n # dataset.shape[1]
      [] OTHER -> TRUE

Altered(file, a) ==
    CASE a.kind = "marker" ->
            [file EXCEPT ![MarkerPositions(file)[a.m]] = Word(a.s)]
      [] a.kind = "scalar_type_id" ->
            [file EXCEPT ![ScalarTypePosition] = KvStr("scalar_type_id", a.s)]
      [] a.kind = "row_count" ->
            [file EXCEPT ![RowCountPosition] = KvInt("row_count", "ui32", a.n)]
      [] OTHER -> file

CodecFile(format) == Path("codec", "data", None, None, format)

LabelledData(format) == Path("train", "data", 1, None, format)

LabelledLabel(format) == Path("train", "label", 1, None, format)

FormatNames == {"csv", "bin", "balsa", "json"}

CdInit ==
    \/ /\ cd_mode = "codec"
       /\ cd_in \in [dataset : Datasets, format : {"bin", "balsa"},
                     alteration : Alterations]
       /\ cd_in.format = "bin" => cd_in.alteration = NoAlteration
       /\ Alters(cd_in.dataset, cd_in.alteration)
       /\ cd_file = <<>>
       /\ cd_pc = "store"
       /\ cd_out = <<>>
    \/ /\ cd_mode = "labelled"
       /\ cd_in \in [data_format : FormatNames, with_label : BOOLEAN,
                     rows : {Corpus(n) : n \in 0..MaxDRows}]
       /\ \E present \in SUBSET {LabelledData(cd_in.data_format),
                                 LabelledLabel(cd_in.data_format)} :
              cd_file = [f \in present |-> StaleContent(f)]
       /\ cd_pc = "request"
       /\ cd_out = <<>>

\* store_dataset_bin / store_dataset_balsa
CdStore ==
    /\ cd_mode = "codec" /\ cd_pc = "store"
    /\ cd_file' = (CodecFile(cd_in.format) :>
                      IF cd_in.format = "bin" THEN store_dataset_bin(cd_in.dataset)
                      ELSE store_dataset_balsa(cd_in.dataset))
    /\ cd_pc' = "stored"
    /\ UNCHANGED <<cd_mode, cd_in, cd_out>>
    /\ UNCHANGED <<pgVars, tmVars, genVars, rpVars, drvVars, profVars, smpVars, scVars>>

\* the environment changes one field of the stored file
CdAlter ==
    /\ cd_mode = "codec" /\ cd_pc = "stored"
    /\ cd_in.alteration # NoAlteration
    /\ cd_file' = [cd_file EXCEPT ![CodecFile(cd_in.format)] =
                      Altered(@, cd_in.alteration)]
    /\ cd_pc' = "altered"
    /\ UNCHANGED <<cd_mode, cd_in, cd_out>>
    /\ UNCHANGED <<pgVars, tmVars, genVars, rpVars, drvVars, profVars, smpVars, scVars>>

\* load_dataset_bin / load_dataset_balsa
CdLoad ==
    /\ cd_mode = "codec"
    /\ cd_pc = IF cd_in.alteration = NoAlteration THEN "stored" ELSE "altered"
    /\ cd_out' = IF cd_in.format = "bin"
                 THEN load_dataset_bin(cd_file[CodecFile(cd_in.format)])
                 ELSE load_dataset_balsa(cd_file[CodecFile(cd_in.format)])
    /\ cd_pc' = IF cd_out'.status = "ok" THEN "loaded" ELSE "failed"
    /\ UNCHANGED <<cd_mode, cd_in, cd_file>>
    /\ UNCHANGED <<pgVars, tmVars, genVars, rpVars, drvVars, profVars, smpVars, scVars>>

\* store_labelled_dataset(data_format, data_filename, label_filename, ...)
CdStoreLabelled ==
    /\ cd_mode = "labelled" /\ cd_pc = "request"
    /\ cd_out' = store_labelled_dataset(
                     cd_in.data_format, LabelledData(cd_in.data_format),
                     IF cd_in.with_label THEN LabelledLabel(cd_in.data_format)
                                         ELSE NoPath,
                     cd_in.rows)
    /\ cd_file' = ApplyWrites(cd_file, cd_out'.writes)
    /\ cd_pc' = IF cd_out'.raised THEN "rejected" ELSE "accepted"
    /\ UNCHANGED <<cd_mode, cd_in>>
    /\ UNCHANGED <<pgVars, tmVars, genVars, rpVars, drvVars, profVars, smpVars, scVars>>

CodecInit ==
    /\ CdInit /\ TmIdle /\ PgIdle /\ bad_row = 0
    /\ GenIdle /\ RpIdle /\ DrvIdle /\ ProfIdle /\ SmpIdle /\ ScIdle

CodecNext == CdStore \/ CdAlter \/ CdLoad \/ CdStoreLabelled

CodecSpec == CodecInit /\ [][CodecNext]_vars

TheCodecFile == cd_file[CodecFile(cd_in.format)]

\* the rows and columns a stored dataset must load with
ExpectedShape(dataset) ==
    IF Len(dataset.shape) = 1 THEN <<dataset.shape[1], 1>> ELSE dataset.shape

C13_AlteredFileRejected ==
    (cd_mode = "codec" /\ cd_in.alteration # NoAlteration
        /\ cd_pc \in {"loaded", "failed"}) =>
        /\ cd_pc = "failed"
        /\ cd_out.status \in {"AssertionError", "RuntimeError", "ValueError"}
        /\ cd_out.flat = <<>>

\* C14: a csv request with a label path, a bin or balsa request without
\* one and a request in any other format are rejected, and a rejected
\* request has written no file and truncated none; a csv request is
\* accepted exactly without a label path and then writes data and labels
\* to the data file and nothing else.
C14_StoreRequestsRejected ==
    (cd_mode = "labelled" /\ cd_pc # "request") =>
        LET fmt == cd_in.data_format
            data == LabelledData(fmt)
        IN  /\ (fmt = "csv" /\ cd_in.with_label) => cd_pc = "rejected"
            /\ (fmt \in {"bin", "balsa"} /\ ~cd_in.with_label) => cd_pc = "rejected"
            /\ fmt \notin {"csv", "bin", "balsa"} => cd_pc = "rejected"
            /\ cd_pc = "rejected" =>
                  /\ cd_out.writes = <<>>
                  /\ \A f \in DOMAIN cd_file : cd_file[f] = StaleContent(f)
            /\ (fmt = "csv" /\ ~cd_in.with_label) =>
                  /\ cd_pc = "accepted"
                  /\ WrittenFiles(cd_out.writes) = <<data>>
                  /\ cd_file[data] = cd_in.rows
                  /\ \A f \in DOMAIN cd_file \ {data} : cd_file[f] = StaleContent(f)

C14_Witness ==
    /\ cd_mode = "labelled" /\ cd_pc = "rejected"
    /\ cd_in.data_format = "csv" /\ cd_in.with_label
    /\ Len(cd_in.rows) = 2
    /\ DOMAIN cd_file = {LabelledData("csv"), LabelledLabel("csv")}

(***************************************************************************)
(* get_statistics_from_time_file(time_file, target_dict, key_prefix)       *)
(*                                                                         *)
(* A line of the report is [label, token]: the text before the colon and   *)
(* the last whitespace-separated word.  Times are counted in hundredths    *)
(* of a second.                                                            *)
(***************************************************************************)
MaxElapsed == 2

Line(label, token) == [label |-> label, token |-> token]

Token(form, h, m, v) == [form |-> form, h |-> h, m |-> m, v |-> v]

\* "0.12", "1234"
Number(v) == Token("number", None, None, v)

\* "99%", and a word without the percent sign
Percent(v) == Token("percent", None, None, v)

Unsigned(v) == Token("unsigned", None, None, v)

\* "S.ff", "M:S.ff", "H:M:S"; s is the seconds field in hundredths
Elapsed(h, m, s) == Token("elapsed", h, m, s)

\* the phrases the parser looks for, and the report lines holding them
Contains ==
    {<<"User time (seconds)", "User time">>,
     <<"System time (seconds)", "System time">>,
     <<"Percent of CPU this job got", "Percent of CPU">>,
     <<"Elapsed (wall clock) time (h:mm:ss or m:ss)", "Elapsed (wall clock) time">>,
     <<"Maximum resident set size (kbytes)", "Maximum resident set size">>}

In(phrase, line) == <<line.label, phrase>> \in Contains

\* mutant of parse_elapsed_time: the hours are weighted like the minutes
parse_elapsed_time_hours_as_minutes(text) ==
    IF text.m = None THEN None
    ELSE (IF text.h = None THEN 0 ELSE text.h * 6000) + text.m * 6000 + text.v

\* the expression matches at least "M:S"; the value None stands for is
\* never a time
parse_elapsed_time(text) ==
    IF text.m = None THEN None
    ELSE (IF text.h = None THEN 0 ELSE text.h * 360000) + text.m * 6000 + text.v

Parsed(status, dict) == [status |-> status, dict |-> dict]

Set(dict, key, value) == (key :> value) @@ dict

\* mutant of parse_line: the system time is stored under the user time key
parse_line_key_copied(line, key_prefix, target) ==
    IF In("User time", line)
    THEN Parsed("ok", Set(target, Key(key_prefix, "user-time"), line.token.v))
    ELSE IF In("System time", line)
    THEN Parsed("ok", Set(target, Key(key_prefix, "user-time"), line.token.v))
    ELSE IF In("Percent of CPU", line)
    THEN IF line.token.form # "percent" THEN Parsed("AssertionError", target)
         ELSE Parsed("ok", Set(target, Key(key_prefix, "percent-cpu"), line.token.v))
    ELSE IF In("Elapsed (wall clock) time", line)
    THEN LET elapsed_time == parse_elapsed_time(line.token)
         IN  IF elapsed_time # None
             THEN Parsed("ok", Set(target, Key(key_prefix, "wall-clock-time"), elapsed_time))
             ELSE Parsed("ok", target)
    ELSE IF In("Maximum resident set size", line)
    THEN Parsed("ok", Set(target, Key(key_prefix, "max-rss"), line.token.v))
    ELSE Parsed("ok", target)

\* lines 46-59: the body of the loop
parse_line(line, key_prefix, target) ==
    IF In("User time", line)
    THEN Parsed("ok", Set(target, Key(key_prefix, "user-time"), line.token.v))
    ELSE IF In("System time", line)
    THEN Parsed("ok", Set(target, Key(key_prefix, "system-time"), line.token.v))
    ELSE IF In("Percent of CPU", line)
    THEN IF line.token.form # "percent" THEN Parsed("AssertionError", target)
         ELSE Parsed("ok", Set(target, Key(key_prefix, "percent-cpu"), line.token.v))
    ELSE IF In("Elapsed (wall clock) time", line)
    THEN LET elapsed_time == parse_elapsed_time(line.token)
         IN  IF elapsed_time # None
             THEN Parsed("ok", Set(target, Key(key_prefix, "wall-clock-time"), elapsed_time))
             ELSE Parsed("ok", target)
    ELSE IF In("Maximum resident set size", line)
    THEN Parsed("ok", Set(target, Key(key_prefix, "max-rss"), line.token.v))
    ELSE Parsed("ok", target)

RECURSIVE get_statistics_from_time_file(_, _, _)
get_statistics_from_time_file(lines, key_prefix, target) ==
    IF lines = <<>> THEN Parsed("ok", target)
    ELSE LET r == parse_line(Head(lines), key_prefix, target)
         IN  IF r.status # "ok" THEN r
             ELSE get_statistics_from_time_file(Tail(lines), key_prefix, r.dict)

\* the report of "time -v": every line of interest may be missing
Optional(lines) == {<<>>} \cup {<<l>> : l \in lines}

ElapsedTokens ==
    {Elapsed(None, None, s) : s \in {0, 150}}
    \cup {Elapsed(None, m, s) : m \in 0..MaxElapsed, s \in {0, 150}}
    \cup {Elapsed(h, m, s) : h \in 1..MaxElapsed, m \in 0..MaxElapsed, s \in {0, 150}}

Reports ==
    {<<Line("Command being timed", Number(0))>>
        \o user \o system \o percent \o elapsed \o rss
        \o <<Line("Exit status", Number(0))>> :
        user \in Optional({Line("User time (seconds)", Number(v)) : v \in {0, 12}}),
        system \in Optional({Line("System time (seconds)", Number(v)) : v \in {0, 3}}),
        percent \in Optional({Line("Percent of CPU this job got", t) :
                                 t \in {Percent(99), Unsigned(99)}}),
        elapsed \in Optional({Line("Elapsed (wall clock) time (h:mm:ss or m:ss)", t) :
                                 t \in ElapsedTokens}),
        rss \in Optional({Line("Maximum resident set size (kbytes)", Number(v)) :
                             v \in {0, 2048}})}

TmInit ==
    /\ tm_in \in [time_file : Reports, key_prefix : {"train-", "test-"}]
    /\ tm_pc = "call"
    /\ tm_dict = <<>>

\* line 61: every line was read
TmReturn ==
    /\ tm_pc = "call"
    /\ LET r == get_statistics_from_time_file(tm_in.time_file, tm_in.key_prefix, <<>>)
       IN  /\ r.status = "ok"
           /\ tm_dict' = r.dict
    /\ tm_pc' = "returned"
    /\ UNCHANGED tm_in
    /\ UNCHANGED <<pgVars, cdVars, genVars, rpVars, drvVars, profVars, smpVars, scVars>>

\* line 50: the assertion on the percent sign fails; what the earlier lines
\* gave stays in the dictionary
TmRaise ==
    /\ tm_pc = "call"
    /\ LET r == get_statistics_from_time_file(tm_in.time_file, tm_in.key_prefix, <<>>)
       IN  /\ r.status # "ok"
           /\ tm_dict' = r.dict
    /\ tm_pc' = "raised"
    /\ UNCHANGED tm_in
    /\ UNCHANGED <<pgVars, cdVars, genVars, rpVars, drvVars, profVars, smpVars, scVars>>

TimeInit ==
    /\ TmInit /\ CdIdle /\ PgIdle /\ bad_row = 0
    /\ GenIdle /\ RpIdle /\ DrvIdle /\ ProfIdle /\ SmpIdle /\ ScIdle

TimeNext == TmReturn \/ TmRaise

TimeSpec == TimeInit /\ [][TimeNext]_vars

\* the line of the report with the label, if there is one
HasLine(label) == \E i \in DOMAIN tm_in.time_file : tm_in.time_file[i].label = label

TokenOf(label) ==
    tm_in.time_file[CHOOSE i \in DOMAIN tm_in.time_file :
                        tm_in.time_file[i].label = label].token

UserLine == "User time (seconds)"
SystemLine == "System time (seconds)"
PercentLine == "Percent of CPU this job got"
ElapsedLine == "Elapsed (wall clock) time (h:mm:ss or m:ss)"
RssLine == "Maximum resident set size (kbytes)"

\* the percent word ends in "%" and the elapsed time has its minutes
AsTimeWritesIt ==
    /\ HasLine(PercentLine) => TokenOf(PercentLine).form = "percent"
    /\ HasLine(ElapsedLine) => TokenOf(ElapsedLine).m # None

StatKey(name) == Key(tm_in.key_prefix, name)

\* the key of a line that is present
KeyOf(name, label) == IF HasLine(label) THEN {StatKey(name)} ELSE {}

ElapsedSeconds(token) ==
    100 * (3600 * (IF token.h = None THEN 0 ELSE token.h)
            + 60 * (IF token.m = None THEN 0 ELSE token.m)) + token.v

\* C16 as stated: an elapsed value in any of the forms S, M:S and H:M:S is
\* stored under the wall-clock-time key as 3600*H + 60*M + S seconds.
C16_ElapsedAnyForm ==
    (tm_pc = "returned" /\ HasLine(ElapsedLine)) =>
        /\ StatKey("wall-clock-time") \in DOMAIN tm_dict
        /\ tm_dict[StatKey("wall-clock-time")] = ElapsedSeconds(TokenOf(ElapsedLine))

\* C16 as amended: an elapsed value of the forms M:S and H:M:S is stored
\* under the wall-clock-time key as 3600*H + 60*M + S seconds; a value of
\* seconds alone is not recognised: the call returns without the key.
C16_ElapsedWithMinutes ==
    (tm_pc = "returned" /\ HasLine(ElapsedLine)) =>
        IF TokenOf(ElapsedLine).m # None
        THEN /\ StatKey("wall-clock-time") \in DOMAIN tm_dict
             /\ tm_dict[StatKey("wall-clock-time")] = ElapsedSeconds(TokenOf(ElapsedLine))
        ELSE StatKey("wall-clock-time") \notin DOMAIN tm_dict

C16_Witness ==
    /\ tm_pc = "returned"
    /\ HasLine(ElapsedLine)
    /\ TokenOf(ElapsedLine) = Elapsed(1, 2, 150)
    /\ tm_dict[StatKey("wall-clock-time")] = 372150

(***************************************************************************)
(* Properties of the drivers and of the way profile calls them.            *)
(***************************************************************************)
\* C17 as stated: whatever the driver of a classifier, the call profile
\* makes is accepted: a run that fails has launched its engine, and never
\* fails with a TypeError on the call itself.
C17_KnobSetAccepted ==
    (ppc = "run" /\ dpc = "raised") =>
        /\ dexc.type # "TypeError"
        /\ launched # <<>>

LabelGiven ==
    drv_in.train_label_filename # NoPath \/ drv_in.test_label_filename # NoPath

\* C18: a call of the ranger driver's run that binds and carries a train
\* or a test label path raises AssertionError with no program launched and
\* no statistic produced; a call without label paths passes the assertions;
\* and the label paths derived for the format of the ranger driver are
\* absent for every size and test percentage.
C18_RangerLabelPrecondition ==
    /\ (rmode = "driver" /\ drv_in.kind = "ranger" /\ dpc # "call"
            /\ binds(drv_in.kind, drv_in.keywords)) =>
          IF LabelGiven
          THEN /\ dpc = "raised"
               /\ dexc.type = "AssertionError"
               /\ launched = <<>>
               /\ drv_stats = {}
          ELSE dpc = "raised" => launched # <<>>
    /\ \A size \in 1..MaxSize, pct \in Percentages :
          /\ get_train_dataset_filenames(get_data_format("ranger"), size, pct)[2] = NoPath
          /\ get_test_dataset_filenames(get_data_format("ranger"), size, pct)[2] = NoPath
          /\ get_test_dataset_filenames(get_data_format("ranger"), None, None)[2] = NoPath

C18_Witness ==
    /\ rmode = "driver" /\ drv_in.kind = "ranger"
    /\ binds(drv_in.kind, drv_in.keywords)
    /\ drv_in.train_label_filename = NoPath
    /\ drv_in.test_label_filename # NoPath
    /\ dpc = "raised"
    /\ dexc.type = "AssertionError"
    /\ launched = <<>>

\* C19 as stated: when profile is given a timeout, an engine that does not
\* terminate is stopped: the run never stays blocked, it fails and the
\* loop goes on.
C19_TimeoutBoundsEveryRun ==
    ptimeout # None => dpc # "blocked"
(***************************************************************************)
(* Properties of profile: configuration errors.                            *)
(***************************************************************************)
\* the classifier's section is in the configuration file, names a
\* registered driver kind and carries the arguments its constructor takes
WellConfigured(name) ==
    /\ name \in DOMAIN sections
    /\ get_driver_ok(sections[name].driver)
    /\ constructed(sections[name].driver, sections[name].args)

\* C20: a configuration error that affects one classifier (a name absent
\* from the configuration, a malformed section, an unknown driver kind,
\* constructor arguments the driver does not accept) skips that classifier
\* only: unless profile was stopped by something else, once it has ended
\* every well configured classifier named on the command line has been run
\* and reported.
C20_ConfigErrorSkipsOnlyClassifier ==
    (ppc \in {"done", "aborted"} /\ pexc.at \notin {"mkdir", "run", "write_report"}) =>
        \A c \in DOMAIN classifiers :
            WellConfigured(classifiers[c]) => classifiers[c] \in Range(reports)

(***************************************************************************)
(* Properties of generate_datasets: the cache across calls.                *)
(***************************************************************************)
\* the rows of the file are rows of the corpus of this call
FromCorpus(f) ==
    \A k \in DOMAIN fs[f] : fs[f][k].x \in 1..corpus_rows

\* C28: after generate_datasets has returned normally, the cached train and
\* test files of every requested size hold rows sampled from the corpus
\* named in the call, also when an earlier call filled the cache from
\* another corpus and use_cache is on.
C28_CacheHoldsCallersCorpus ==
    gpc = "done" =>
        \A i \in DOMAIN data_sizes :
            \A f \in ClaimFiles(data_sizes[i], test_percentage) :
                /\ f \in DOMAIN fs
                /\ f.kind = "data" => FromCorpus(f)

\* generate_datasets has failed on the assertion of sample_dataset: the
\* corpus has fewer rows than data_size + test_size
FailedForSize ==
    /\ gpc = "raised" /\ gexc = "AssertionError"
    /\ data_points.loaded
    /\ \A k \in DOMAIN data_points.rows : data_points.rows[k].y \in {0, 1}
    /\ data_size + test_size > Len(data_points.rows)

\* C30: when generate_datasets fails for size S because S plus its test
\* size exceeds the corpus, no file of S's key exists, the files of the
\* sizes processed earlier in the call are complete, and no file of a later
\* size has been touched.
C30_OversizedKeyLeftEmpty ==
    FailedForSize =>
        /\ ClaimFiles(data_size, test_percentage) \cap DOMAIN fs = {}
        /\ ~is_cached(fs, data_size, test_percentage)
        /\ \A i \in 1..(gi - 1) :
              CompleteIn(fs, data_sizes[i], test_percentage)
        /\ \A i \in (gi + 1)..Len(data_sizes) :
              data_sizes[i] # data_size =>
                 /\ ~Touched(data_sizes[i])
                 /\ \A f \in ClaimFiles(data_sizes[i], test_percentage) :
                       /\ f \in DOMAIN fs <=> f \in DOMAIN fs0
                       /\ f \in DOMAIN fs => fs[f] = fs0[f]

C30_Witness ==
    /\ FailedForSize
    /\ gi = 2
    /\ data_sizes[1] # data_sizes[2]
    /\ Regenerated(data_sizes[1])
    /\ ClaimFiles(data_size, test_percentage) \cap DOMAIN fs0 # {}

\* the positions of the history at which f was written
WritesOf(f) == {k \in DOMAIN oplog : oplog[k] = [op |-> "write", file |-> f]}

\* C24: within one run each cache file is written at most once, for every
\* sorted size list (also one that names a size more than once) and every
\* combination of use_cache and seed.
C24_EachFileWrittenOnce ==
    \A k \in DOMAIN oplog : Cardinality(WritesOf(oplog[k].file)) <= 1

(***************************************************************************)
(* Properties of the dataset generation step of profile.                   *)
(***************************************************************************)
\* the labels a file holds are 0 or 1
LabelsBinary(content, f) ==
    (f.kind = "label" \/ f.fmt = "csv") =>
        \A k \in DOMAIN content : content[k].y \in {0, 1}

\* C22: the labels of every dataset that enters the system are checked to
\* be 0 or 1 by generate_datasets, by ingest_test_dataset and by the sample
\* command, so that no file they write holds another label.
C22_WrittenLabelsBinary ==
    /\ \A k \in DOMAIN oplog :
          (oplog[k].op = "write" /\ oplog[k].file \in DOMAIN fs) =>
              LabelsBinary(fs[oplog[k].file], oplog[k].file)
    /\ \A f \in DOMAIN s_files : LabelsBinary(s_files[f], f)

\* the file written at position b of the history existed when the write
\* began: it was there at the call or written since, and not unlinked after
ExistedBefore(b) ==
    LET f == oplog[b].file
        prior == {a \in 1..(b - 1) :
                    oplog[a].file = f /\ oplog[a].op \in {"unlink", "write"}}
    IN  IF prior = {} THEN f \in DOMAIN fs0
        ELSE LET last == CHOOSE a \in prior : \A c \in prior : c <= a
             IN  oplog[last].op = "write"

\* C23: no cache file is updated in place: whenever generate_datasets or
\* ingest_test_dataset writes a file, an earlier file at that path has been
\* removed before the write.
C23_NeverUpdatedInPlace ==
    \A b \in DOMAIN oplog : oplog[b].op = "write" => ~ExistedBefore(b)

\* the data formats the drivers declare
DeclaredFormats == {get_data_format(kind) : kind \in DRIVERS}

\* C29: when the generation step has returned normally, every train and
\* test path that profile hands to driver.run, for every requested size
\* and every data format a driver declares, is absent or names an existing
\* file, and the cache is complete for every requested size.
C29_RunPathsExist ==
    pgpc \in {"done", "loop"} =>
        \A i \in DOMAIN data_sizes :
            /\ is_cached(fs, data_sizes[i], test_percentage)
            /\ \A data_format \in DeclaredFormats :
                  LET train == run_train_dataset_filenames(
                                   data_format, data_sizes[i], test_percentage)
                      test == run_test_dataset_filenames(
                                   pg_in.test_data_filename, data_format,
                                   data_sizes[i], test_percentage)
                  IN  \A j \in 1..2 :
                         /\ train[j] # NoPath => train[j] \in DOMAIN fs
                         /\ test[j] # NoPath => test[j] \in DOMAIN fs

C29_Witness ==
    /\ pgpc = "done"
    /\ pg_in.test_data_filename = TestSourcePath
    /\ Len(data_sizes) = 2
    /\ ~CompleteIn(fs0, data_sizes[2], test_percentage)
    /\ IngestedFiles \cap DOMAIN fs0 = {}
    /\ IngestedFiles \subseteq DOMAIN fs

(***************************************************************************)
(* Properties of Driver.run: the order of the phases, the origin of the    *)
(* statistics and the files of the two invocations.                        *)
(***************************************************************************)
ExitedWith(k, code) == launched[k].outcome = [kind |-> "exit", code |-> code]

Scored == dpc = "returned" \/ ScoreKeys("test-") \cap drv_stats # {}

\* C25: in every driver's run the classification program is launched only
\* after the training program has exited with code 0, and the predictions
\* are decoded and scored only after the classification program has exited
\* with code 0; when training fails nothing is classified and nothing is
\* scored.
C25_PhasesInOrder ==
    /\ Len(launched) <= 2
    /\ launched # <<>> => launched[1].program = TrainProgram(drv_in.kind)
    /\ Len(launched) = 2 =>
          /\ launched[2].program = TestProgram(drv_in.kind)
          /\ ExitedWith(1, 0)
    /\ (dpc = "score" \/ Scored) =>
          /\ Len(launched) = 2
          /\ ExitedWith(2, 0)
    /\ (launched # <<>> /\ ~ExitedWith(1, 0)) =>
          /\ Len(launched) = 1
          /\ dpc \in {"raised", "blocked"}
          /\ ~Scored

C25_Witness ==
    /\ drv_in.kind = "sklearn"
    /\ dpc = "raised"
    /\ Len(launched) = 1
    /\ ExitedWith(1, 1)
    /\ drv_stats = {}

\* C26: in the statistics a driver returns, every key with prefix "train-"
\* holds a value taken from the training invocation and every key with
\* prefix "test-" a value taken from the classification invocation or from
\* the scoring of its predictions.
C26_KeysFromOwnPhase ==
    /\ \A k \in DOMAIN launched :
          \A key \in launched[k].keys :
              key.prefix = IF k = 1 THEN "train-" ELSE "test-"
    /\ \A key \in drv_stats :
          \/ \E k \in DOMAIN launched : key \in launched[k].keys
          \/ key \in ScoreKeys("test-")

\* C27: within one run directory the files persisted for the training
\* invocation (resource report, stdout log, stderr log) are distinct from
\* those persisted for the classification invocation, for every driver.
C27_PhaseFilesDistinct ==
    Len(launched) = 2 => launched[1].files \cap launched[2].files = {}

(***************************************************************************)
(* Properties of profile: the missing configuration file.                  *)
(***************************************************************************)
\* C21: when the configuration file does not exist, profile writes a
\* default file with one section per known driver and returns: no dataset
\* is generated or removed, no run directory is made, no engine launched.
C21_MissingConfigWritesDefault ==
    ~pg_in.config.exists =>
        /\ pgpc \in {"idle", "config", "returned"}
        /\ fs = fs0 /\ oplog = <<>>
        /\ run_path = "none" /\ dirs = {}
        /\ launched = <<>>
        /\ pgpc = "returned" =>
              /\ config_file.exists
              /\ DOMAIN config_file.sections = {"balsa", "lightgbm", "ranger", "sklearn"}
              /\ \A name \in DOMAIN config_file.sections :
                    config_file.sections[name].driver = name

C21_Witness ==
    /\ ~pg_in.config.exists
    /\ pgpc = "returned"
    /\ config_file.exists
    /\ DOMAIN fs0 # {}
    /\ ~is_cached(fs, pg_in.data_sizes[1],
                  default_test_percentage(pg_in.test_data_filename, pg_in.test_percentage))

====
